---------------------------- MODULE Spec2Model ----------------------------
(***************************************************************************)
(* Model of the reply/compose engine of gmcli (GmailService.createDraft,   *)
(* GmailService.sendMessage, GmailService.getMessageForReply and the pure  *)
(* helpers of reply-utils.ts).                                             *)
(*                                                                         *)
(* Strings are sequences.  Text that the code inspects character by        *)
(* character (subjects, address headers, bodies) is a sequence of          *)
(* one-character strings; fixed literals that the code only concatenates   *)
(* (HTML scaffolding, month names) are single multi-character elements.    *)
(* String concatenation is \o, the empty string is << >>, and a string is  *)
(* truthy exactly when it is not << >>.                                    *)
(*                                                                         *)
(* A raw message is the sequence of its CRLF-separated pieces, in the      *)
(* order the code concatenates them: header lines, the blank separator     *)
(* line, boundary delimiter lines, part header lines and content blocks.   *)
(***************************************************************************)
EXTENDS Integers, Sequences, FiniteSets, TLC

(***************************************************************************)
(* Characters and generic string helpers                                   *)
(***************************************************************************)

\* String.prototype.trim / regex \s : the white space characters
WS ==
  {" ", "\t", "\n", "\r"}

\* String.prototype.toLowerCase, per character
LowerChar(c) ==
  CASE c = "A" -> "a" [] c = "B" -> "b" [] c = "C" -> "c" [] c = "D" -> "d"
    [] c = "E" -> "e" [] c = "F" -> "f" [] c = "G" -> "g" [] c = "H" -> "h"
    [] c = "I" -> "i" [] c = "J" -> "j" [] c = "K" -> "k" [] c = "L" -> "l"
    [] c = "M" -> "m" [] c = "N" -> "n" [] c = "O" -> "o" [] c = "P" -> "p"
    [] c = "Q" -> "q" [] c = "R" -> "r" [] c = "S" -> "s" [] c = "T" -> "t"
    [] c = "U" -> "u" [] c = "V" -> "v" [] c = "W" -> "w" [] c = "X" -> "x"
    [] c = "Y" -> "y" [] c = "Z" -> "z" [] OTHER -> c

ToLowerCase(s) ==
  [i \in 1..Len(s) |-> LowerChar(s[i])]

RECURSIVE TrimStart(_)
TrimStart(s) ==
  IF s # << >> /\ Head(s) \in WS THEN TrimStart(Tail(s)) ELSE s

RECURSIVE TrimEnd(_)
TrimEnd(s) ==
  IF s # << >> /\ s[Len(s)] \in WS THEN TrimEnd(SubSeq(s, 1, Len(s) - 1)) ELSE s

Trim(s) ==
  TrimEnd(TrimStart(s))

\* Array.prototype.join
RECURSIVE Join(_, _)
Join(list, sep) ==
  IF list = << >> THEN << >>
  ELSE IF Len(list) = 1 THEN list[1]
  ELSE list[1] \o sep \o Join(Tail(list), sep)

\* String.prototype.split on a one-character separator
RECURSIVE Split(_, _)
Split(s, c) ==
  IF \A i \in 1..Len(s) : s[i] # c THEN << s >>
  ELSE LET k == CHOOSE i \in 1..Len(s) : s[i] = c /\ \A j \in 1..(i - 1) : s[j] # c
       IN  << SubSeq(s, 1, k - 1) >> \o Split(SubSeq(s, k + 1, Len(s)), c)

\* String.prototype.replace(/c/g, r) for a one-character pattern
RECURSIVE ReplaceAll(_, _, _)
ReplaceAll(s, c, r) ==
  IF s = << >> THEN << >>
  ELSE (IF Head(s) = c THEN r ELSE << Head(s) >>) \o ReplaceAll(Tail(s), c, r)

\* Number.prototype.toString for a natural number
RECURSIVE NumToStr(_)
NumToStr(n) ==
  LET d == << "0", "1", "2", "3", "4", "5", "6", "7", "8", "9" >>
  IN  IF n < 10 THEN << d[n + 1] >> ELSE NumToStr(n \div 10) \o << d[(n % 10) + 1] >>

\* String.prototype.padStart(2, "0")
PadStart2(s) ==
  IF Len(s) < 2 THEN << "0" >> \o s ELSE s

(***************************************************************************)
(* reply-utils.ts                                                          *)
(***************************************************************************)

\* The regular expression /^(.+?)\s*<([^>]+)>$/ applied to s: the set of
\* pairs <<k, j>> such that group 1 is s[1..k], the "<" is s[j], the gap
\* between them is white space and group 2 is s[j+1..Len(s)-1].
AddrMatches(s) ==
  { kj \in (1..Len(s)) \X (1..Len(s)) :
      LET k == kj[1]
          j == kj[2]
      IN  /\ k < j
          /\ j + 1 <= Len(s) - 1
          /\ s[Len(s)] = ">"
          /\ s[j] = "<"
          /\ \A i \in 1..k : s[i] \notin {"\n", "\r"}
          /\ \A i \in (k + 1)..(j - 1) : s[i] \in WS
          /\ \A i \in (j + 1)..(Len(s) - 1) : s[i] # ">" }

parseEmailAddress(header) ==
  LET trimmed == Trim(header)
      ms == AddrMatches(trimmed)
  IN  IF ms # {}
      THEN \* the lazy group 1 takes the shortest prefix that lets the rest match
           LET k == CHOOSE x \in {m[1] : m \in ms} : \A y \in {m[1] : m \in ms} : x <= y
               j == CHOOSE x \in {m[2] : m \in {n \in ms : n[1] = k}} : TRUE
           IN  [name |-> Trim(SubSeq(trimmed, 1, k)),
                email |-> Trim(SubSeq(trimmed, j + 1, Len(trimmed) - 1))]
      ELSE [name |-> << >>, email |-> trimmed]

\* A list parser that keeps the entries without an address
parseEmailList_KeepEmpty(header) ==
  IF header = << >> \/ Trim(header) = << >> THEN << >>
  ELSE LET entries == Split(header, ",")
       IN  [i \in 1..Len(entries) |-> parseEmailAddress(Trim(entries[i])).email]

parseEmailList(header) ==
  IF header = << >> \/ Trim(header) = << >> THEN << >>
  ELSE LET entries == Split(header, ",")
           emails == [i \in 1..Len(entries) |-> parseEmailAddress(Trim(entries[i])).email]
       IN  SelectSeq(emails, LAMBDA e : Len(e) > 0)

\* A prefixing that rewrites a prefix it finds as "Re: "
formatReplySubject_Normalised(subject) ==
  LET trimmed == Trim(subject)
  IN  IF /\ Len(trimmed) >= 3
         /\ LowerChar(trimmed[1]) = "r"
         /\ LowerChar(trimmed[2]) = "e"
         /\ trimmed[3] = ":"
      THEN << "R", "e", ":", " " >> \o TrimStart(SubSeq(trimmed, 4, Len(trimmed)))
      ELSE << "R", "e", ":", " " >> \o trimmed

formatReplySubject(subject) ==
  LET trimmed == Trim(subject)
  IN  IF /\ Len(trimmed) >= 3
         /\ LowerChar(trimmed[1]) = "r"
         /\ LowerChar(trimmed[2]) = "e"
         /\ trimmed[3] = ":"
      THEN trimmed
      ELSE << "R", "e", ":", " " >> \o trimmed

\* A filter that removes the first occurrence only
filterSelfFromRecipients_FirstOnly(recipients, selfEmail) ==
  LET selfLower == ToLowerCase(selfEmail)
      hits == { i \in 1..Len(recipients) : ToLowerCase(recipients[i]) = selfLower }
  IN  IF hits = {} THEN recipients
      ELSE LET first == CHOOSE i \in hits : \A j \in hits : i <= j
           IN  SubSeq(recipients, 1, first - 1) \o SubSeq(recipients, first + 1, Len(recipients))

\* A filter that compares the addresses as written
filterSelfFromRecipients_CaseSensitive(recipients, selfEmail) ==
  SelectSeq(recipients, LAMBDA e : e # selfEmail)

filterSelfFromRecipients(recipients, selfEmail) ==
  LET selfLower == ToLowerCase(selfEmail)
  IN  SelectSeq(recipients, LAMBDA e : ToLowerCase(e) # selfLower)

\* An escaping that replaces the ampersand last
escapeHtml_AmpersandLast(text) ==
  ReplaceAll(
    ReplaceAll(
      ReplaceAll(
        ReplaceAll(text, "<", << "&", "l", "t", ";" >>),
        ">", << "&", "g", "t", ";" >>),
      "\"", << "&", "q", "u", "o", "t", ";" >>),
    "&", << "&", "a", "m", "p", ";" >>)

escapeHtml(text) ==
  ReplaceAll(
    ReplaceAll(
      ReplaceAll(
        ReplaceAll(text, "&", << "&", "a", "m", "p", ";" >>),
        "<", << "&", "l", "t", ";" >>),
      ">", << "&", "g", "t", ";" >>),
    "\"", << "&", "q", "u", "o", "t", ";" >>)

textToHtml(text) ==
  ReplaceAll(escapeHtml(text), "\n", << "<", "b", "r", ">" >>)

\* A quoting that leaves the empty lines without the marker
formatQuotedBody_SkipEmptyLines(body) ==
  IF body = << >> THEN << >>
  ELSE LET lines == Split(body, "\n")
       IN  Join([i \in 1..Len(lines) |->
                   IF lines[i] = << >> THEN << >> ELSE << ">", " " >> \o lines[i]],
                << "\n" >>)

formatQuotedBody(body) ==
  IF body = << >> THEN << >>
  ELSE LET lines == Split(body, "\n")
       IN  Join([i \in 1..Len(lines) |-> << ">", " " >> \o lines[i]], << "\n" >>)

\* The narrow no-break space U+202F
NNBSP ==
  "U+202F"

\* Date header values of the modelled mailbox (RFC 2822 strings, kept whole)
DateMorning ==
  << "Mon, 6 Jan 2025 00:05:00" >>

DateEvening ==
  << "Tue, 7 Jan 2025 18:30:00" >>

\* A Date header value without zone, "Mon, 6 Jan 2025 hh:mm:00", with the
\* time of day written out digit by digit
DateAt(h, m) ==
  << "Mon, 6 Jan 2025 " >> \o PadStart2(NumToStr(h)) \o << ":" >>
    \o PadStart2(NumToStr(m)) \o << ":00" >>

Digits ==
  << "0", "1", "2", "3", "4", "5", "6", "7", "8", "9" >>

\* The number a two-digit field of a date string stands for, -1 if it is
\* not made of digits
TwoDigits(d1, d2) ==
  IF \E i, j \in 1..10 : Digits[i] = d1 /\ Digits[j] = d2
  THEN 10 * ((CHOOSE i \in 1..10 : Digits[i] = d1) - 1)
         + (CHOOSE j \in 1..10 : Digits[j] = d2) - 1
  ELSE -1

\* new Date(date) followed by getDay/getMonth/getDate/getFullYear/getHours/
\* getMinutes in the local zone; any other string is an Invalid Date (NaN)
ParseDate(date) ==
  IF date = DateMorning
  THEN [valid |-> TRUE, dow |-> 1, month |-> 0, day |-> 6, year |-> 2025, hours |-> 0, minutes |-> 5]
  ELSE IF date = DateEvening
  THEN [valid |-> TRUE, dow |-> 2, month |-> 0, day |-> 7, year |-> 2025, hours |-> 18, minutes |-> 30]
  ELSE IF /\ Len(date) = 7
          /\ date[1] = "Mon, 6 Jan 2025 " /\ date[4] = ":" /\ date[7] = ":00"
          /\ TwoDigits(date[2], date[3]) \in 0..23
          /\ TwoDigits(date[5], date[6]) \in 0..59
  THEN [valid |-> TRUE, dow |-> 1, month |-> 0, day |-> 6, year |-> 2025,
        hours |-> TwoDigits(date[2], date[3]), minutes |-> TwoDigits(date[5], date[6])]
  ELSE [valid |-> FALSE, dow |-> 0, month |-> 0, day |-> 0, year |-> 0, hours |-> 0, minutes |-> 0]

DayNames ==
  << "Sun", "Mon", "Tue", "Wed", "Thu", "Fri", "Sat" >>

MonthNames ==
  << "Jan", "Feb", "Mar", "Apr", "May", "Jun", "Jul", "Aug", "Sep", "Oct", "Nov", "Dec" >>

\* A clock that shows the hours after midnight and after noon as they come,
\* 0 for the first of them
TimeStr_ZeroHour(parsed) ==
  IF parsed.valid
  THEN LET ampm == IF parsed.hours >= 12 THEN "PM" ELSE "AM"
           hours == parsed.hours % 12
           minuteStr == PadStart2(NumToStr(parsed.minutes))
       IN  NumToStr(hours) \o << ":" >> \o minuteStr \o << NNBSP, ampm >>
  ELSE << "NaN", ":", "NaN", NNBSP, "AM" >>

\* `${hours}:${minuteStr} ${ampm}` of formatAttributionLine
TimeStr(parsed) ==
  IF parsed.valid
  THEN LET ampm == IF parsed.hours >= 12 THEN "PM" ELSE "AM"
           h12 == parsed.hours % 12
           hours == IF h12 = 0 THEN 12 ELSE h12
           minuteStr == PadStart2(NumToStr(parsed.minutes))
       IN  NumToStr(hours) \o << ":" >> \o minuteStr \o << NNBSP, ampm >>
  ELSE << "NaN", ":", "NaN", NNBSP, "AM" >>

\* "On <dayName>, <month> <day>, <year> at " shared by both attribution lines
DatePrefix(parsed) ==
  IF parsed.valid
  THEN << "On ", DayNames[parsed.dow + 1], ", ", MonthNames[parsed.month + 1], " " >>
         \o NumToStr(parsed.day) \o << ", " >> \o NumToStr(parsed.year) \o << " at " >>
  ELSE << "On ", "undefined", ", ", "undefined", " ", "NaN", ", ", "NaN", " at " >>

formatAttributionLine(date, sender) ==
  LET parsed == ParseDate(date)
      addr == parseEmailAddress(sender)
      formattedSender == IF addr.name # << >> THEN sender
                         ELSE << "<" >> \o addr.email \o << ">" >>
  IN  DatePrefix(parsed) \o TimeStr(parsed) \o << " " >> \o formattedSender \o << " wrote:" >>

formatGmailQuote(date, sender, body) ==
  LET attributionLine == formatAttributionLine(date, sender)
      quotedBody == formatQuotedBody(body)
  IN  << "\n", "\n" >> \o attributionLine \o << "\n", "\n" >> \o quotedBody

formatHtmlAttributionLine(date, sender) ==
  LET parsed == ParseDate(date)
      addr == parseEmailAddress(sender)
      emailLink == << "<a href=\"mailto:" >> \o escapeHtml(addr.email) \o << "\">" >>
                     \o escapeHtml(addr.email) \o << "</a>" >>
      formattedSender == IF addr.name # << >>
                         THEN escapeHtml(addr.name) \o << " &lt;" >> \o emailLink \o << "&gt;" >>
                         ELSE << "&lt;" >> \o emailLink \o << "&gt;" >>
  IN  DatePrefix(parsed) \o TimeStr(parsed) \o << " " >> \o formattedSender \o << " wrote:" >>

formatHtmlGmailQuote(date, sender, body, htmlBody) ==
  LET attributionLine == formatHtmlAttributionLine(date, sender)
      quotedContent == IF htmlBody # << >> THEN htmlBody ELSE escapeHtml(body)
  IN  << "<div class=\"gmail_quote gmail_quote_container\">",
         "<div dir=\"ltr\" class=\"gmail_attr\">" >>
        \o attributionLine
        \o << "<br></div>",
              "<blockquote class=\"gmail_quote\" style=\"margin:0px 0px 0px 0.8ex;border-left:1px solid rgb(204,204,204);padding-left:1ex\">" >>
        \o quotedContent
        \o << "</blockquote></div>" >>

formatHtmlReplyBody(replyText, date, sender, originalBody, originalHtmlBody) ==
  LET htmlReply == textToHtml(replyText)
      htmlQuote == formatHtmlGmailQuote(date, sender, originalBody, originalHtmlBody)
  IN  << "<div dir=\"ltr\"><div>" >> \o htmlReply \o << "</div><br>" >> \o htmlQuote \o << "</div>" >>


(***************************************************************************)
(* The environment: accounts, the remote mailbox and the local files       *)
(***************************************************************************)

\* The sending account, and its address as it appears in other people's mail
Self ==
  << "m", "@", "x" >>

SelfUpper ==
  << "M", "@", "X" >>

Bob ==
  << "b", "@", "x" >>

Carol ==
  << "c", "@", "x" >>

Dan ==
  << "d", "@", "x" >>

\* "Al <a@x>"
AlHeader ==
  << "A", "l", " ", "<", "a", "@", "x", ">" >>

\* Buffer.from(text).toString("base64url") of a part body; "" stays ""
Base64UrlEncode(text) ==
  IF text = << >> THEN << >> ELSE << "b64url(" >> \o text \o << ")" >>

\* Buffer.from(data, "base64url").toString()
Base64UrlDecode(data) ==
  IF data = << >> THEN << >> ELSE SubSeq(data, 2, Len(data) - 1)

\* A leaf of a content-part tree
Leaf(mimeType, text) ==
  [mimeType |-> mimeType, data |-> Base64UrlEncode(text), parts |-> << >>]

\* An inner node of a content-part tree
Node(mimeType, parts) ==
  [mimeType |-> mimeType, data |-> << >>, parts |-> parts]

Hdr(name, value) ==
  [name |-> name, value |-> value]

\* The messages the remote service holds, by message id
Messages ==
  [id \in {"m1", "m2", "m3", "m4", "m5"} |->
     CASE id = "m1" ->
            [id |-> "m1", threadId |-> "m1",
             headers |-> << Hdr("From", AlHeader), Hdr("To", Self),
                            Hdr("Subject", << "H", "i" >>), Hdr("Date", DateMorning),
                            Hdr("Message-ID", << "<id1>" >>) >>,
             payload |-> Leaf("text/plain", << "o", "n", "e" >>)]
       [] id = "m2" ->
            [id |-> "m2", threadId |-> "m1",
             headers |-> << Hdr("from", Bob),
                            Hdr("To", SelfUpper \o << ",", " " >> \o Carol),
                            Hdr("Cc", Dan \o << "," >> \o Self),
                            Hdr("Subject", << "R", "E", ":", "H", "i" >>),
                            Hdr("Date", DateEvening),
                            Hdr("References", << "<id1>" >>),
                            Hdr("Message-Id", << "<id2>" >>) >>,
             payload |-> Leaf("text/html", << "<", "b", ">", "2" >>)]
       [] id = "m3" ->
            [id |-> "m3", threadId |-> "m1",
             headers |-> << Hdr("From", AlHeader),
                            Hdr("To", Self \o << "," >> \o Bob),
                            Hdr("Subject", << " ", "H", "i", " " >>),
                            Hdr("Date", DateEvening),
                            Hdr("Message-ID", << "<id3>" >>),
                            Hdr("References", << "<id1>", " ", "<id2>" >>) >>,
             payload |-> Node("multipart/alternative",
                              << Leaf("text/plain", << "a", "&", "\n", "b" >>),
                                 Leaf("text/html", << "<", "p", ">", "3" >>) >>)]
       [] id = "m4" ->
            [id |-> "m4", threadId |-> "t4",
             headers |-> << Hdr("From", Carol), Hdr("To", Self),
                            Hdr("Subject", << "r", "e", ":" >>),
                            Hdr("Date", DateMorning),
                            Hdr("References", << "<id9>" >>) >>,
             payload |-> Leaf("text/plain", << "4" >>)]
       [] id = "m5" ->
            [id |-> "m5", threadId |-> "t5",
             headers |-> << Hdr("From", Dan), Hdr("To", Self) >>,
             payload |-> Node("multipart/mixed", << >>)]]

\* The threads the remote service holds, by thread id, in stored order
Threads ==
  [id \in {"m1", "t4", "t5", "t0"} |->
     CASE id = "m1" -> << "m1", "m2", "m3" >>
       [] id = "t4" -> << "m4" >>
       [] id = "t5" -> << "m5" >>
       [] id = "t0" -> << >>]

\* Attachment paths, as their segments
DocPath ==
  << "tmp", "doc.pdf" >>

NotesPath ==
  << "home", "notes.TXT" >>

\* The content fs.readFileSync returns for a file when the read succeeds
Files ==
  [f \in {DocPath, NotesPath} |-> IF f = DocPath THEN << "%PDF" >> ELSE << "n", "b" >>]

\* path.basename
Basename(filePath) ==
  filePath[Len(filePath)]

\* path.extname(filename).toLowerCase() for the file names of the model
ExtnameLower(filename) ==
  CASE filename = "doc.pdf" -> ".pdf"
    [] filename = "notes.TXT" -> ".txt"
    [] OTHER -> ""

getMimeType(filename) ==
  LET ext == ExtnameLower(filename)
  IN  CASE ext = ".pdf" -> "application/pdf"
        [] ext = ".txt" -> "text/plain"
        [] OTHER -> "application/octet-stream"

\* Buffer.prototype.toString("base64") of a file's content
Base64(content) ==
  << "base64(" >> \o content \o << ")" >>


(***************************************************************************)
(* GmailService.getMessageForReply: the part after the two fetches         *)
(***************************************************************************)

\* name.toLowerCase() for the header names of the model
HeaderNameLower(name) ==
  CASE name \in {"From", "from"} -> "from"
    [] name \in {"To", "to"} -> "to"
    [] name \in {"Cc", "CC", "cc"} -> "cc"
    [] name \in {"Subject", "subject"} -> "subject"
    [] name \in {"Date", "date"} -> "date"
    [] name \in {"Message-ID", "Message-Id", "message-id"} -> "message-id"
    [] name \in {"References", "references"} -> "references"
    [] OTHER -> name

\* headers.find((h) => h.name?.toLowerCase() === name.toLowerCase())?.value || ""
getHeader(headers, name) ==
  LET hits == { i \in 1..Len(headers) : HeaderNameLower(headers[i].name) = HeaderNameLower(name) }
  IN  IF hits = {} THEN << >>
      ELSE headers[CHOOSE i \in hits : \A j \in hits : i <= j].value

RECURSIVE decodeMessageBody(_)
decodeMessageBody(payload) ==
  IF payload.data # << >> THEN Base64UrlDecode(payload.data)
  ELSE LET parts == payload.parts
           direct == { i \in 1..Len(parts) :
                         parts[i].mimeType = "text/plain" /\ parts[i].data # << >> }
           nested == { i \in 1..Len(parts) : decodeMessageBody(parts[i]) # << >> }
       IN  IF direct # {}
           THEN Base64UrlDecode(parts[CHOOSE i \in direct : \A j \in direct : i <= j].data)
           ELSE IF nested # {}
           THEN decodeMessageBody(parts[CHOOSE i \in nested : \A j \in nested : i <= j])
           ELSE << >>

\* A search for the HTML body that descends into each part in turn, without
\* looking at the direct children first
RECURSIVE decodeHtmlBody_DepthFirst(_)
decodeHtmlBody_DepthFirst(payload) ==
  IF payload.data # << >> /\ payload.mimeType = "text/html"
  THEN Base64UrlDecode(payload.data)
  ELSE LET parts == payload.parts
           nested == { i \in 1..Len(parts) : decodeHtmlBody_DepthFirst(parts[i]) # << >> }
       IN  IF nested # {}
           THEN decodeHtmlBody_DepthFirst(parts[CHOOSE i \in nested : \A j \in nested : i <= j])
           ELSE << >>

RECURSIVE decodeHtmlBody(_)
decodeHtmlBody(payload) ==
  IF payload.data # << >> /\ payload.mimeType = "text/html"
  THEN Base64UrlDecode(payload.data)
  ELSE LET parts == payload.parts
           direct == { i \in 1..Len(parts) :
                         parts[i].mimeType = "text/html" /\ parts[i].data # << >> }
           nested == { i \in 1..Len(parts) : decodeHtmlBody(parts[i]) # << >> }
       IN  IF direct # {}
           THEN Base64UrlDecode(parts[CHOOSE i \in direct : \A j \in direct : i <= j].data)
           ELSE IF nested # {}
           THEN decodeHtmlBody(parts[CHOOSE i \in nested : \A j \in nested : i <= j])
           ELSE << >>

\* A references chain that forgets the ancestors
BuildReferences_Drop(existingRefs, rfc822MessageId) ==
  rfc822MessageId

\* `${existingRefs} ${rfc822MessageId}` or the Message-ID alone
BuildReferences(existingRefs, rfc822MessageId) ==
  IF existingRefs # << >> THEN existingRefs \o << " " >> \o rfc822MessageId
  ELSE rfc822MessageId

\* The object getMessageForReply returns for the fetched message msg
ReplyDataOf(msg) ==
  LET rfc822MessageId == getHeader(msg.headers, "Message-ID")
      existingRefs == getHeader(msg.headers, "References")
  IN  [has |-> TRUE,
       messageId |-> msg.id,
       threadId |-> msg.threadId,
       from |-> getHeader(msg.headers, "From"),
       to |-> parseEmailList(getHeader(msg.headers, "To")),
       cc |-> parseEmailList(getHeader(msg.headers, "Cc")),
       subject |-> getHeader(msg.headers, "Subject"),
       date |-> getHeader(msg.headers, "Date"),
       body |-> decodeMessageBody(msg.payload),
       htmlBody |-> decodeHtmlBody(msg.payload),
       inReplyTo |-> rfc822MessageId,
       references |-> BuildReferences(existingRefs, rfc822MessageId)]

\* replyData while it is still undefined
NoReplyData ==
  [has |-> FALSE, messageId |-> "", threadId |-> "", from |-> << >>, to |-> << >>,
   cc |-> << >>, subject |-> << >>, date |-> << >>, body |-> << >>, htmlBody |-> << >>,
   inReplyTo |-> << >>, references |-> << >>]


(***************************************************************************)
(* GmailService.createDraft / sendMessage: the synchronous composition     *)
(***************************************************************************)

\* An optional array argument (cc?, bcc?, attachments?)
Undef ==
  [def |-> FALSE, v |-> << >>]

Def(v) ==
  [def |-> TRUE, v |-> v]

\* !recipientList || recipientList.length === 0 ||
\* (recipientList.length === 1 && !recipientList[0])
NoRecipients(to) ==
  to = << >> \/ (Len(to) = 1 /\ to[1] = << >>)

\* The reply-all branch: options.cc = [...(options.cc || []), ...filtered]
ReplyAllCc(cc, rd, email) ==
  LET allRecipients == rd.to \o rd.cc
      filtered == filterSelfFromRecipients(allRecipients, email)
  IN  Def(cc.v \o filtered)

\* The options object as the auto-fill block leaves it
OptionsAfterAutoFill(a, rd, email) ==
  IF rd.has /\ NoRecipients(a.to) /\ a.options.replyAll
  THEN [a.options EXCEPT !.cc = ReplyAllCc(a.options.cc, rd, email)]
  ELSE a.options

\* An auto-fill that takes the From header as it stands
RecipientList_RawFrom(a, rd) ==
  IF rd.has /\ NoRecipients(a.to) THEN << rd.from >> ELSE a.to

\* recipientList after the auto-fill block
RecipientList(a, rd) ==
  IF rd.has /\ NoRecipients(a.to) THEN << parseEmailAddress(rd.from).email >> ELSE a.to

\* An auto-fill that prefixes the caller's subject as well
SubjectLine_AlwaysPrefix(a, rd) ==
  IF rd.has
  THEN formatReplySubject(IF a.subject = << >> THEN rd.subject ELSE a.subject)
  ELSE a.subject

\* subjectLine after the auto-fill block
SubjectLine(a, rd) ==
  IF rd.has /\ a.subject = << >> THEN formatReplySubject(rd.subject) ELSE a.subject

\* replyData && options.includeQuote !== false
HasHtmlQuote(a, rd) ==
  rd.has /\ a.options.includeQuote # "false"

\* bodyText after the auto-fill block
BodyText(a, rd) ==
  IF HasHtmlQuote(a, rd) THEN a.body \o formatGmailQuote(rd.date, rd.from, rd.body)
  ELSE a.body

\* options.attachments && options.attachments.length > 0
HasAttachments(a) ==
  a.options.attachments.def /\ Len(a.options.attachments.v) > 0

\* A thread association that only drafts get
ThreadIdOf_DraftOnly(kind, a, rd) ==
  IF kind = "createDraft"
  THEN (IF rd.has THEN rd.threadId ELSE a.options.threadId)
  ELSE "undefined"

\* A thread association in which the caller's threadId wins when it is given
ThreadIdOf_CallerFirst(kind, a, rd) ==
  IF kind = "createDraft" /\ a.options.threadId # "undefined"
  THEN a.options.threadId
  ELSE IF rd.has THEN rd.threadId ELSE "undefined"

\* threadId handed to the transport: the resolved message's thread when a
\* reply target was resolved, else options.threadId (createDraft) or
\* undefined (sendMessage)
ThreadIdOf(kind, a, rd) ==
  IF rd.has THEN rd.threadId
  ELSE IF kind = "createDraft" THEN a.options.threadId ELSE "undefined"

\* `boundary_${Date.now()}_${random}` and `alt_${Date.now()}_${random}`
Boundary(n) ==
  << "boundary_" >> \o NumToStr(n)

AltBoundary(n) ==
  << "alt_" >> \o NumToStr(n)

\* A Content-Type choice that looks at the quote before the attachments
ContentType_QuoteFirst(a, rd, boundary, altBoundary) ==
  IF HasHtmlQuote(a, rd)
  THEN << "multipart/alternative", "; boundary=\"" >> \o altBoundary \o << "\"" >>
  ELSE IF HasAttachments(a)
  THEN << "multipart/mixed", "; boundary=\"" >> \o boundary \o << "\"" >>
  ELSE << "text/plain", "; charset=UTF-8" >>

\* The value of the top-level Content-Type header
ContentType(a, rd, boundary, altBoundary) ==
  IF HasAttachments(a)
  THEN << "multipart/mixed", "; boundary=\"" >> \o boundary \o << "\"" >>
  ELSE IF HasHtmlQuote(a, rd)
  THEN << "multipart/alternative", "; boundary=\"" >> \o altBoundary \o << "\"" >>
  ELSE << "text/plain", "; charset=UTF-8" >>

\* The header block: the non-empty header lines, in order
HeaderLines(email, a, rd, boundary, altBoundary) ==
  LET opts == OptionsAfterAutoFill(a, rd, email)
      inReplyTo == rd.inReplyTo
      references == rd.references
  IN  SelectSeq(
        << << "From: " >> \o email,
           << "To: " >> \o Join(RecipientList(a, rd), << ", " >>),
           IF Len(opts.cc.v) > 0 THEN << "Cc: " >> \o Join(opts.cc.v, << ", " >>) ELSE << >>,
           IF Len(opts.bcc.v) > 0 THEN << "Bcc: " >> \o Join(opts.bcc.v, << ", " >>) ELSE << >>,
           << "Subject: " >> \o SubjectLine(a, rd),
           IF inReplyTo # << >> THEN << "In-Reply-To: " >> \o inReplyTo ELSE << >>,
           IF references # << >> THEN << "References: " >> \o references ELSE << >>,
           << "MIME-Version: 1.0" >>,
           << "Content-Type: " >> \o ContentType(a, rd, boundary, altBoundary) >>,
        LAMBDA h : h # << >>)

\* `--${b}` and `--${b}--`
Delim(b) ==
  << "--" >> \o b

Close(b) ==
  << "--" >> \o b \o << "--" >>

TextPlainHeader ==
  << "Content-Type: ", "text/plain", "; charset=UTF-8" >>

TextHtmlHeader ==
  << "Content-Type: ", "text/html", "; charset=UTF-8" >>

\* An HTML alternative built from the reply text the quote was appended to
HtmlBody_FromBodyText(a, rd) ==
  formatHtmlReplyBody(BodyText(a, rd), rd.date, rd.from, rd.body, rd.htmlBody)

\* formatHtmlReplyBody(originalBody, replyData.date, from, body, htmlBody)
HtmlBody(a, rd) ==
  formatHtmlReplyBody(a.body, rd.date, rd.from, rd.body, rd.htmlBody)

\* The two alternatives, text/plain then text/html, without the closing line
AlternativeParts(a, rd, altBoundary) ==
  << Delim(altBoundary), TextPlainHeader, << >>, BodyText(a, rd),
     Delim(altBoundary), TextHtmlHeader, << >>, HtmlBody(a, rd) >>

\* One attachment part
AttachmentPart(filePath, boundary) ==
  LET filename == Basename(filePath)
      base64Content == Base64(Files[filePath])
      mimeType == getMimeType(filename)
  IN  << Delim(boundary),
         << "Content-Type: ", mimeType >>,
         << "Content-Transfer-Encoding: ", "base64" >>,
         << "Content-Disposition: ", "attachment", "; filename=\"", filename, "\"" >>,
         << >>,
         base64Content >>

\* An attachment loop that emits the parts last to first
RECURSIVE AttachmentParts_Reversed(_, _)
AttachmentParts_Reversed(paths, boundary) ==
  IF paths = << >> THEN << >>
  ELSE AttachmentParts_Reversed(Tail(paths), boundary) \o AttachmentPart(Head(paths), boundary)

RECURSIVE AttachmentParts(_, _)
AttachmentParts(paths, boundary) ==
  IF paths = << >> THEN << >>
  ELSE AttachmentPart(Head(paths), boundary) \o AttachmentParts(Tail(paths), boundary)

\* The outcomes of the attachment loop: every fs.readFileSync returns (TRUE)
\* or one of them throws (FALSE); without attachments nothing is read
ReadOutcomes(a) ==
  IF HasAttachments(a) THEN BOOLEAN ELSE {TRUE}

\* emailContent: header block, blank line, body
EmailContent(email, a, rd, boundary, altBoundary) ==
  LET headers == HeaderLines(email, a, rd, boundary, altBoundary)
  IN  IF HasAttachments(a)
      THEN headers \o << << >> >>
             \o (IF HasHtmlQuote(a, rd)
                 THEN << Delim(boundary),
                         << "Content-Type: ", "multipart/alternative", "; boundary=\"" >>
                           \o altBoundary \o << "\"" >>,
                         << >> >>
                        \o AlternativeParts(a, rd, altBoundary) \o << Close(altBoundary) >>
                 ELSE << Delim(boundary), TextPlainHeader, << >>, BodyText(a, rd) >>)
             \o AttachmentParts(a.options.attachments.v, boundary)
             \o << Close(boundary) >>
      ELSE IF HasHtmlQuote(a, rd)
      THEN headers \o << << >> >> \o AlternativeParts(a, rd, altBoundary)
             \o << Close(altBoundary) >>
      ELSE headers \o << << >>, BodyText(a, rd) >>

\* Buffer.from(emailContent).toString("base64url")
EncodeRaw(emailContent) ==
  [encoding |-> "base64url", content |-> emailContent]


(***************************************************************************)
(* Bounds and input sets                                                   *)
(***************************************************************************)

\* Number of concurrent callers of the service the state has room for
NumProcs ==
  2

\* Largest number of attachments of one compose call
MaxAttachments ==
  2

Procs ==
  1..NumProcs

\* The callers that act under Spec: compose calls one after the other
SeqProcs ==
  {1}

\* The values a generated boundary suffix can take in a call of caller p:
\* Date.now() and Math.random() give the calls in flight tokens of their own
Nonces(p) ==
  {6 + p}

Paths ==
  {DocPath, NotesPath}

\* The sequences of at most n distinct elements of S
SeqsUpTo(S, n) ==
  { q \in UNION { [1..k -> S] : k \in 0..n } :
      \A i, j \in 1..Len(q) : i # j => q[i] # q[j] }

ToChoices ==
  {<< >>, << << >> >>, << Bob >>}

SubjectChoices ==
  {<< >>, << "Y", "o" >>}

BodyChoices ==
  {<< "<", "o", "k", ">", "\n", "&" >>}

CcChoices ==
  {Undef, Def(<< Carol >>)}

BccChoices ==
  {Def(<< Dan >>)}

ThreadIdChoices ==
  {"undefined", "tX"}

ReplyToChoices ==
  {"undefined", "m1", "m2", "t4", "m5", "t0", "zz"}

AttachmentChoices ==
  {Undef} \cup { Def(q) : q \in SeqsUpTo(Paths, MaxAttachments) \ {<< >>} }

IncludeQuoteChoices ==
  {"undefined", "true", "false"}

\* The option objects a caller can pass; threadId exists for createDraft only
OptionsChoices(kind) ==
  [cc : CcChoices, bcc : BccChoices,
   threadId : IF kind = "createDraft" THEN ThreadIdChoices ELSE {"undefined"},
   replyToMessageId : ReplyToChoices,
   attachments : AttachmentChoices,
   replyAll : BOOLEAN,
   includeQuote : IncludeQuoteChoices]

\* The arguments of one compose call
ArgsChoices(kind) ==
  [to : ToChoices, subject : SubjectChoices, body : BodyChoices,
   options : OptionsChoices(kind)]

NoArgs ==
  [to |-> << >>, subject |-> << >>, body |-> << >>,
   options |-> [cc |-> Undef, bcc |-> Undef, threadId |-> "undefined",
                replyToMessageId |-> "undefined", attachments |-> Undef,
                replyAll |-> FALSE, includeQuote |-> "undefined"]]

\* The addresses an account can be stored under
Emails ==
  {Self, Bob}

(***************************************************************************)
(* State                                                                   *)
(***************************************************************************)

VARIABLES
  accounts,      \* AccountStorage.accounts: the e-mail addresses stored
  gmailClients,  \* GmailService.gmailClients: the addresses with a cached client
  built,         \* per address: how many clients have been constructed for it
  oauth,         \* GmailOAuthFlow: the fields and the promise of one authorize()
  pc,            \* per caller: where its compose call stands
  args,          \* per caller: the objects it passed, as they are now
  args0,         \* per caller: the values those objects held when it called
  call,          \* per caller: the locals of its compose call
  eval           \* one evaluation of a helper: the function, its input, its result

vars ==
  << accounts, gmailClients, built, oauth, pc, args, args0, call, eval >>

\* The local draft of updateDraft before getDraft has returned
NoDraft ==
  [id |-> "undefined", hasMessage |-> FALSE, hasRaw |-> FALSE,
   raw |-> EncodeRaw(<< >>), threadId |-> "undefined"]

NoCall ==
  [kind |-> "none", email |-> << >>, messageOrThreadId |-> "undefined",
   messageIdToFetch |-> "undefined", thread |-> "none", replyData |-> NoReplyData,
   boundary |-> << >>, altBoundary |-> << >>,
   submitted |-> [raw |-> EncodeRaw(<< >>), threadId |-> "undefined"],
   draft |-> NoDraft, updated |-> [raw |-> EncodeRaw(<< >>), threadId |-> "undefined"],
   error |-> "none", requests |-> << >>, responses |-> << >>, thrown |-> "none"]

\* A GmailOAuthFlow on which authorize() has not been called
NoFlow ==
  [server |-> "null", listener |-> "none", timeoutId |-> "null", timer |-> "none",
   promise |-> "none", resolved |-> << >>, inflight |-> 0, requests |-> 0,
   delivered |-> "none"]

\* No helper is being evaluated
NoEval ==
  [fn |-> "none", input |-> << >>, results |-> << >>]

Init ==
  /\ accounts = {Self}
  /\ gmailClients = {}
  /\ built = [e \in Emails |-> 0]
  /\ oauth = NoFlow
  /\ pc = [p \in Procs |-> "idle"]
  /\ args = [p \in Procs |-> NoArgs]
  /\ args0 = [p \in Procs |-> NoArgs]
  /\ call = [p \in Procs |-> NoCall]
  /\ eval = NoEval


(***************************************************************************)
(* Operations                                                              *)
(***************************************************************************)

\* The accounts a caller names
EmailChoices ==
  {Self}

\* if (options.replyToMessageId)
HasReplyTarget(a) ==
  a.options.replyToMessageId \notin {"undefined", ""}

\* The transport operation that submits the composed message
SubmitOp(kind) ==
  IF kind = "createDraft" THEN "drafts.create" ELSE "messages.send"

\* The values the transport rejects a request of operation op with
TransportErrors(op) ==
  CASE op = "threads.get" -> {"notFound"}
    [] op = "messages.get" -> {"notFound", "backendError"}
    [] OTHER -> {"invalidArgument"}

\* How a request of operation op settles: it resolves, or it is rejected
Outcomes(op) ==
  {"ok"} \cup TransportErrors(op)

\* getGmailClient throws: no client is cached for the address and the
\* account storage holds no account for it
NoClientFor(email) ==
  email \notin gmailClients /\ email \notin accounts

\* A cache lookup that constructs a client at every call
getGmailClient_AlwaysBuild(email) ==
  /\ gmailClients' = gmailClients \cup {email}
  /\ built' = [built EXCEPT ![email] = built[email] + 1]

\* getGmailClient when it does not throw: the cached client, or a client
\* constructed from the stored account and put in the cache
getGmailClient(email) ==
  /\ gmailClients' = gmailClients \cup {email}
  /\ built' = IF email \in gmailClients THEN built
            ELSE [built EXCEPT ![email] = built[email] + 1]

\* A compose that leaves out the attachments when a file cannot be read
Compose_SkipUnreadable(p, c, a, rd) ==
  \E nb \in Nonces(p), na \in Nonces(p), readOk \in ReadOutcomes(a) :
    LET boundary == Boundary(nb)
        altBoundary == AltBoundary(na)
        read == IF readOk THEN a ELSE [a EXCEPT !.options.attachments = Undef]
        emailContent == EmailContent(c.email, read, rd, boundary, altBoundary)
    IN  /\ args' = [args EXCEPT ![p] =
                     [a EXCEPT !.options = OptionsAfterAutoFill(a, rd, c.email)]]
        /\ pc' = [pc EXCEPT ![p] = "submit"]
        /\ call' = [call EXCEPT ![p] =
             [c EXCEPT !.replyData = rd, !.boundary = boundary,
                       !.altBoundary = altBoundary,
                       !.error = IF readOk THEN "none" ELSE "readFileSync",
                       !.submitted = [raw |-> EncodeRaw(emailContent),
                                      threadId |-> ThreadIdOf(c.kind, a, rd)],
                       !.requests = Append(c.requests,
                                      [op |-> SubmitOp(c.kind), id |-> "me"])]]

\* createDraft / sendMessage from the end of the reply resolution to the
\* submit request: auto-fill, header block, body assembly, attachment reads
Compose(p, c, a, rd) ==
  \E nb \in Nonces(p), na \in Nonces(p), readOk \in ReadOutcomes(a) :
    LET boundary == Boundary(nb)
        altBoundary == AltBoundary(na)
        c1 == [c EXCEPT !.replyData = rd, !.boundary = boundary,
                        !.altBoundary = altBoundary]
    IN  /\ args' = [args EXCEPT ![p] =
                     [a EXCEPT !.options = OptionsAfterAutoFill(a, rd, c.email)]]
        /\ IF ~readOk
           THEN /\ pc' = [pc EXCEPT ![p] = "failed"]
                /\ call' = [call EXCEPT ![p] =
                     [c1 EXCEPT !.error = "readFileSync", !.thrown = "ENOENT"]]
           ELSE LET emailContent == EmailContent(c.email, a, rd, boundary, altBoundary)
                IN  /\ pc' = [pc EXCEPT ![p] = "submit"]
                    /\ call' = [call EXCEPT ![p] =
                         [c1 EXCEPT !.submitted =
                                      [raw |-> EncodeRaw(emailContent),
                                       threadId |-> ThreadIdOf(c.kind, a, rd)],
                                    !.requests = Append(c.requests,
                                       [op |-> SubmitOp(c.kind), id |-> "me"])]]

\* An entry that reads the attachment files before it resolves the reply
\* target
Start_ReadFirst(p, kind, email, a) ==
  LET c == [NoCall EXCEPT !.kind = kind, !.email = email]
  IN  /\ pc[p] = "idle"
      /\ email \in accounts
      /\ args0' = [args0 EXCEPT ![p] = a]
      /\ getGmailClient(email)
      /\ UNCHANGED << accounts, oauth, eval >>
      /\ \E readOk \in ReadOutcomes(a) :
           IF ~readOk
           THEN /\ pc' = [pc EXCEPT ![p] = "failed"]
                /\ args' = [args EXCEPT ![p] = a]
                /\ call' = [call EXCEPT ![p] =
                     [c EXCEPT !.error = "readFileSync", !.thrown = "ENOENT"]]
           ELSE IF HasReplyTarget(a)
           THEN /\ pc' = [pc EXCEPT ![p] = "threadGet"]
                /\ args' = [args EXCEPT ![p] = a]
                /\ call' = [call EXCEPT ![p] =
                     [c EXCEPT !.messageOrThreadId = a.options.replyToMessageId,
                               !.messageIdToFetch = a.options.replyToMessageId,
                               !.requests = << [op |-> "threads.get",
                                                id |-> a.options.replyToMessageId] >>]]
           ELSE Compose(p, c, a, NoReplyData)

\* The entry of createDraft / sendMessage up to its first await
Start(p, kind, email, a) ==
  LET c == [NoCall EXCEPT !.kind = kind, !.email = email]
  IN  /\ pc[p] = "idle"
      /\ args0' = [args0 EXCEPT ![p] = a]
      /\ UNCHANGED << oauth, eval >>
      /\ IF NoClientFor(email)
         THEN \* getGmailClient throws
              /\ pc' = [pc EXCEPT ![p] = "failed"]
              /\ call' = [call EXCEPT ![p] =
                   [c EXCEPT !.error = "Account not found",
                             !.thrown = "Account not found"]]
              /\ args' = [args EXCEPT ![p] = a]
              /\ UNCHANGED << accounts, gmailClients, built >>
         ELSE /\ getGmailClient(email)
              /\ UNCHANGED accounts
              /\ IF HasReplyTarget(a)
                 THEN \* getMessageForReply up to the thread fetch
                      /\ pc' = [pc EXCEPT ![p] = "threadGet"]
                      /\ args' = [args EXCEPT ![p] = a]
                      /\ call' = [call EXCEPT ![p] =
                           [c EXCEPT !.messageOrThreadId = a.options.replyToMessageId,
                                     !.messageIdToFetch = a.options.replyToMessageId,
                                     !.requests = << [op |-> "threads.get",
                                                      id |-> a.options.replyToMessageId] >>]]
                 ELSE Compose(p, c, a, NoReplyData)

CreateDraft(p) ==
  \E email \in EmailChoices, a \in ArgsChoices("createDraft") :
    Start(p, "createDraft", email, a)

SendMessage(p) ==
  \E email \in EmailChoices, a \in ArgsChoices("sendMessage") :
    Start(p, "sendMessage", email, a)

\* messageIdToFetch after the try/catch around the thread fetch: the last
\* message of a fetched, non-empty thread, else the identifier itself
ResolveMessageId_First(ok, messageOrThreadId) ==
  IF ok /\ Len(Threads[messageOrThreadId]) > 0
  THEN Threads[messageOrThreadId][1]
  ELSE messageOrThreadId

ResolveMessageId(ok, messageOrThreadId) ==
  IF ok /\ Len(Threads[messageOrThreadId]) > 0
  THEN Threads[messageOrThreadId][Len(Threads[messageOrThreadId])]
  ELSE messageOrThreadId

\* A thread fetch whose rejection is not caught
ThreadGetResponse_Rethrow(p) ==
  /\ pc[p] = "threadGet"
  /\ \E res \in Outcomes("threads.get") :
       LET c == call[p]
           id == c.messageOrThreadId
           ok == res = "ok"
       IN  /\ ok => id \in DOMAIN Threads
           /\ IF ok
              THEN /\ pc' = [pc EXCEPT ![p] = "messageGet"]
                   /\ call' = [call EXCEPT ![p] =
                        [c EXCEPT !.thread = "ok",
                                  !.messageIdToFetch = ResolveMessageId(ok, id),
                                  !.responses = Append(c.responses, res),
                                  !.requests = Append(c.requests,
                                     [op |-> "messages.get", id |-> ResolveMessageId(ok, id)])]]
              ELSE /\ pc' = [pc EXCEPT ![p] = "failed"]
                   /\ call' = [call EXCEPT ![p] =
                        [c EXCEPT !.thread = "failed", !.error = "threads.get",
                                  !.responses = Append(c.responses, res),
                                  !.thrown = res]]
  /\ UNCHANGED << accounts, gmailClients, built, oauth, args, args0, eval >>

\* gmail.users.threads.get settles: the try block or the catch block, then
\* the message fetch is issued
ThreadGetResponse(p) ==
  /\ pc[p] = "threadGet"
  /\ \E res \in Outcomes("threads.get") :
       LET c == call[p]
           id == c.messageOrThreadId
           ok == res = "ok"
       IN  /\ ok => id \in DOMAIN Threads
           /\ LET messageIdToFetch == ResolveMessageId(ok, id)
              IN  call' = [call EXCEPT ![p] =
                     [c EXCEPT !.thread = IF ok THEN "ok" ELSE "failed",
                               !.messageIdToFetch = messageIdToFetch,
                               !.responses = Append(c.responses, res),
                               !.requests = Append(c.requests,
                                  [op |-> "messages.get", id |-> messageIdToFetch])]]
  /\ pc' = [pc EXCEPT ![p] = "messageGet"]
  /\ UNCHANGED << accounts, gmailClients, built, oauth, args, args0, eval >>

\* A message fetch whose rejection is caught and replaced by an error of the
\* service's own
MessageGetResponse_Wrapped(p) ==
  /\ pc[p] = "messageGet"
  /\ \E res \in Outcomes("messages.get") :
       LET c == [call[p] EXCEPT !.responses = Append(call[p].responses, res)]
           id == c.messageIdToFetch
           ok == res = "ok"
       IN  /\ ok => id \in DOMAIN Messages
           /\ IF ok
              THEN Compose(p, c, args[p], ReplyDataOf(Messages[id]))
              ELSE /\ pc' = [pc EXCEPT ![p] = "failed"]
                   /\ call' = [call EXCEPT ![p] =
                        [c EXCEPT !.error = "messages.get",
                                  !.thrown = "Reply target not found"]]
                   /\ UNCHANGED args
  /\ UNCHANGED << accounts, gmailClients, built, oauth, args0, eval >>

\* A message fetch after which the caller composes from the intent kept in a
\* field of the service, which any call in flight may have overwritten
MessageGetResponse_SharedIntent(p) ==
  /\ pc[p] = "messageGet"
  /\ \E res \in Outcomes("messages.get"), q \in Procs :
       LET c == [call[p] EXCEPT !.responses = Append(call[p].responses, res)]
           id == c.messageIdToFetch
           ok == res = "ok"
       IN  /\ q = p \/ pc[q] # "idle"
           /\ ok => id \in DOMAIN Messages
           /\ IF ok
              THEN Compose(p, c, args[q], ReplyDataOf(Messages[id]))
              ELSE /\ pc' = [pc EXCEPT ![p] = "failed"]
                   /\ call' = [call EXCEPT ![p] =
                        [c EXCEPT !.error = "messages.get", !.thrown = res]]
                   /\ UNCHANGED args
  /\ UNCHANGED << accounts, gmailClients, built, oauth, args0, eval >>

\* gmail.users.messages.get settles: its rejection propagates, otherwise the
\* reply context is built and the caller composes
MessageGetResponse(p) ==
  /\ pc[p] = "messageGet"
  /\ \E res \in Outcomes("messages.get") :
       LET c == [call[p] EXCEPT !.responses = Append(call[p].responses, res)]
           id == c.messageIdToFetch
           ok == res = "ok"
       IN  /\ ok => id \in DOMAIN Messages
           /\ IF ok
              THEN Compose(p, c, args[p], ReplyDataOf(Messages[id]))
              ELSE /\ pc' = [pc EXCEPT ![p] = "failed"]
                   /\ call' = [call EXCEPT ![p] =
                        [c EXCEPT !.error = "messages.get", !.thrown = res]]
                   /\ UNCHANGED args
  /\ UNCHANGED << accounts, gmailClients, built, oauth, args0, eval >>

\* A submit that is issued again when the transport rejects it
SubmitResponse_Retry(p) ==
  /\ pc[p] = "submit"
  /\ \E res \in Outcomes(SubmitOp(call[p].kind)) :
       IF res = "ok"
       THEN /\ pc' = [pc EXCEPT ![p] = "done"]
            /\ call' = [call EXCEPT ![p].responses = Append(call[p].responses, res)]
       ELSE /\ pc' = pc
            /\ call' = [call EXCEPT ![p] =
                 [call[p] EXCEPT !.responses = Append(call[p].responses, res),
                                 !.requests = Append(call[p].requests,
                                    [op |-> SubmitOp(call[p].kind), id |-> "me"])]]
  /\ UNCHANGED << accounts, gmailClients, built, oauth, args, args0, eval >>

\* gmail.users.drafts.create / messages.send settles
SubmitResponse(p) ==
  /\ pc[p] = "submit"
  /\ \E res \in Outcomes(SubmitOp(call[p].kind)) :
       IF res = "ok"
       THEN /\ pc' = [pc EXCEPT ![p] = "done"]
            /\ call' = [call EXCEPT ![p].responses = Append(call[p].responses, res)]
       ELSE /\ pc' = [pc EXCEPT ![p] = "failed"]
            /\ call' = [call EXCEPT ![p] =
                 [call[p] EXCEPT !.error = SubmitOp(call[p].kind),
                                 !.responses = Append(call[p].responses, res),
                                 !.thrown = res]]
  /\ UNCHANGED << accounts, gmailClients, built, oauth, args, args0, eval >>

\* The caller has its result (or its error) and drops the call's objects
Return(p) ==
  /\ pc[p] \in {"done", "failed"}
  /\ pc' = [pc EXCEPT ![p] = "idle"]
  /\ args' = [args EXCEPT ![p] = NoArgs]
  /\ args0' = [args0 EXCEPT ![p] = NoArgs]
  /\ call' = [call EXCEPT ![p] = NoCall]
  /\ UNCHANGED << accounts, gmailClients, built, oauth, eval >>

Next ==
  \E p \in SeqProcs :
    \/ CreateDraft(p)
    \/ SendMessage(p)
    \/ ThreadGetResponse(p)
    \/ MessageGetResponse(p)
    \/ SubmitResponse(p)
    \/ Return(p)

Spec ==
  Init /\ [][Next]_vars

\* Most clients constructed for one address before no account is added
\* under it any more
MaxBuilds ==
  2

\* A message to Bob, no reply target, no attachments
PlainArgs ==
  [to |-> << Bob >>, subject |-> << "Y", "o" >>, body |-> << "h", "i" >>,
   options |-> [cc |-> Undef, bcc |-> Undef, threadId |-> "undefined",
                replyToMessageId |-> "undefined", attachments |-> Undef,
                replyAll |-> FALSE, includeQuote |-> "undefined"]]

\* addGmailAccount up to its await: it throws when the account exists, else
\* it starts the authorization
AddGmailAccount(p) ==
  \E email \in Emails :
    /\ pc[p] = "idle"
    /\ built[email] < MaxBuilds
    /\ IF email \in accounts
       THEN /\ pc' = [pc EXCEPT ![p] = "failed"]
            /\ call' = [call EXCEPT ![p] =
                 [NoCall EXCEPT !.kind = "addGmailAccount", !.email = email,
                                !.error = "Account already exists",
                                !.thrown = "Account already exists"]]
       ELSE /\ pc' = [pc EXCEPT ![p] = "authorize"]
            /\ call' = [call EXCEPT ![p] =
                 [NoCall EXCEPT !.kind = "addGmailAccount", !.email = email]]
    /\ UNCHANGED << accounts, gmailClients, built, oauth, args, args0, eval >>

\* oauthFlow.authorize() settles: the account is stored under the address,
\* or the rejection propagates and nothing is stored
AuthorizeSettles(p) ==
  /\ pc[p] = "authorize"
  /\ \E ok \in BOOLEAN :
       IF ok
       THEN /\ accounts' = accounts \cup {call[p].email}
            /\ pc' = [pc EXCEPT ![p] = "done"]
            /\ call' = call
       ELSE /\ accounts' = accounts
            /\ pc' = [pc EXCEPT ![p] = "failed"]
            /\ call' = [call EXCEPT ![p] =
                 [call[p] EXCEPT !.error = "authorize", !.thrown = "Authorization failed"]]
  /\ UNCHANGED << gmailClients, built, oauth, args, args0, eval >>

\* GmailService.deleteAccount, with AccountStorage.deleteAccount
deleteAccount(email) ==
  /\ gmailClients' = gmailClients \ {email}
  /\ accounts' = accounts \ {email}

DeleteAccount ==
  \E email \in Emails :
    /\ deleteAccount(email)
    /\ UNCHANGED << built, oauth, pc, args, args0, call, eval >>

\* A service operation for an address: sendMessage of a plain message
UseAccount(p) ==
  \E email \in Emails :
    Start(p, "sendMessage", email, PlainArgs)

\* Accounts are added and deleted while operations use them
CacheNext ==
  \/ DeleteAccount
  \/ \E p \in Procs :
       \/ AddGmailAccount(p)
       \/ AuthorizeSettles(p)
       \/ UseAccount(p)
       \/ SubmitResponse(p)
       \/ Return(p)

CacheSpec ==
  Init /\ [][CacheNext]_vars

\* The intents given to createDraft and to sendMessage alike: no threadId
PairArgsChoices ==
  { a \in ArgsChoices("sendMessage") :
      /\ a.to \in {<< >>, << Bob >>}
      /\ a.subject = << >>
      /\ a.options.cc = Undef
      /\ a.options.replyAll
      /\ a.options.replyToMessageId \in {"undefined", "m2", "t4"}
      /\ a.options.attachments \in {Undef, Def(<< NotesPath >>)}
      /\ a.options.includeQuote = "undefined" }

PairCreateDraft(p) ==
  \E email \in EmailChoices, a \in PairArgsChoices :
    Start(p, "createDraft", email, a)

PairSendMessage(p) ==
  \E email \in EmailChoices, a \in PairArgsChoices :
    Start(p, "sendMessage", email, a)

\* One caller creates drafts while another sends messages
PairNext ==
  \/ PairCreateDraft(1)
  \/ PairSendMessage(2)
  \/ \E p \in {1, 2} :
       \/ ThreadGetResponse(p)
       \/ MessageGetResponse(p)
       \/ SubmitResponse(p)
       \/ Return(p)

PairSpec ==
  Init /\ [][PairNext]_vars

(***************************************************************************)
(* GmailService.updateDraft on a draft that createDraft made               *)
(***************************************************************************)

\* The string a raw message is: its pieces joined by CRLF
TextOf(emailContent) ==
  Join(emailContent, << "\r", "\n" >>)

\* String.prototype.indexOf: the 0-based position of the first occurrence
\* of chunk in text, -1 without one
IndexOf(text, chunk) ==
  LET hits == { i \in 1..(Len(text) - Len(chunk) + 1) :
                  SubSeq(text, i, i + Len(chunk) - 1) = chunk }
  IN  IF hits = {} THEN -1
      ELSE (CHOOSE i \in hits : \A j \in hits : i <= j) - 1

\* The intents of the createDraft calls whose drafts are updated
DraftArgsChoices ==
  { a \in ArgsChoices("createDraft") :
      /\ a.to = << Bob >>
      /\ a.options.cc = Undef
      /\ ~a.options.replyAll
      /\ a.options.replyToMessageId \in {"undefined", "m2"}
      /\ a.options.attachments \in {Undef, Def(<< NotesPath >>)}
      /\ a.options.includeQuote \in {"undefined", "false"} }

\* The body argument of updateDraft
NewBodyChoices ==
  {<< >>, << "n", "e", "w" >>}

\* The id the mailbox gave the draft
DraftId ==
  "d1"

\* The thread the mailbox filed the draft under: the one createDraft named,
\* a thread of its own otherwise
StoredThreadId(submitted) ==
  IF submitted.threadId # "undefined" THEN submitted.threadId ELSE "tNew"

\* What drafts.get returns for the draft: the data may lack the message,
\* and the message may lack its raw content (no format is requested)
DraftResponses(submitted) ==
  { [id |-> DraftId, hasMessage |-> shape.message, hasRaw |-> shape.raw,
     raw |-> IF shape.raw THEN submitted.raw ELSE EncodeRaw(<< >>),
     threadId |-> IF shape.message THEN StoredThreadId(submitted) ELSE "undefined"] :
      shape \in {[message |-> FALSE, raw |-> FALSE],
                 [message |-> TRUE, raw |-> FALSE],
                 [message |-> TRUE, raw |-> TRUE]} }

\* existingRaw, headerEnd, headers and updatedEmail of updateDraft
UpdatedEmail(draft, body) ==
  LET existingRaw == IF draft.hasRaw THEN TextOf(draft.raw.content) ELSE << >>
      headerEnd == IndexOf(existingRaw, << "\n", "\n" >>)
      headers == IF headerEnd > 0 THEN SubSeq(existingRaw, 1, headerEnd) ELSE << >>
  IN  headers \o << "\n", "\n" >> \o body

DraftCreate(p) ==
  \E email \in EmailChoices, a \in DraftArgsChoices :
    Start(p, "createDraft", email, a)

\* updateDraft(email, draftId, body) on the draft the caller has just
\* created, up to the drafts.get request of getDraft.  The record keeps what
\* createDraft submitted: it is the draft the mailbox stores.
UpdateDraft(p) ==
  /\ pc[p] = "done"
  /\ call[p].kind = "createDraft"
  /\ \E body \in NewBodyChoices :
       LET a == [NoArgs EXCEPT !.body = body]
       IN  /\ args' = [args EXCEPT ![p] = a]
           /\ args0' = [args0 EXCEPT ![p] = a]
  /\ UNCHANGED << oauth, eval >>
  /\ IF NoClientFor(call[p].email)
     THEN \* getGmailClient throws
          /\ pc' = [pc EXCEPT ![p] = "failed"]
          /\ call' = [call EXCEPT ![p] =
               [call[p] EXCEPT !.kind = "updateDraft",
                               !.error = "Account not found",
                               !.thrown = "Account not found"]]
          /\ UNCHANGED << accounts, gmailClients, built >>
     ELSE /\ getGmailClient(call[p].email)
          /\ UNCHANGED accounts
          /\ pc' = [pc EXCEPT ![p] = "draftGet"]
          /\ call' = [call EXCEPT ![p] =
               [call[p] EXCEPT !.kind = "updateDraft",
                               !.requests = Append(call[p].requests,
                                              [op |-> "drafts.get", id |-> DraftId])]]

\* getDraft returns (or throws); updateDraft builds the new raw message and
\* asks the transport to store it
DraftGetResponse(p) ==
  /\ pc[p] = "draftGet"
  /\ \E res \in Outcomes("drafts.get") :
       IF res # "ok"
       THEN /\ pc' = [pc EXCEPT ![p] = "failed"]
            /\ call' = [call EXCEPT ![p] =
                 [call[p] EXCEPT !.error = "drafts.get",
                                 !.responses = Append(call[p].responses, res),
                                 !.thrown = res]]
       ELSE \E draft \in DraftResponses(call[p].submitted) :
              IF ~draft.hasMessage
              THEN /\ pc' = [pc EXCEPT ![p] = "failed"]
                   /\ call' = [call EXCEPT ![p] =
                        [call[p] EXCEPT !.draft = draft,
                                        !.error = "Draft message not found",
                                        !.responses = Append(call[p].responses, res),
                                        !.thrown = "Draft message not found"]]
              ELSE LET updatedEmail == UpdatedEmail(draft, args[p].body)
                   IN  /\ pc' = [pc EXCEPT ![p] = "draftUpdate"]
                       /\ call' = [call EXCEPT ![p] =
                            [call[p] EXCEPT !.draft = draft,
                                            !.updated = [raw |-> EncodeRaw(updatedEmail),
                                                         threadId |-> draft.threadId],
                                            !.responses = Append(call[p].responses, res),
                                            !.requests = Append(call[p].requests,
                                               [op |-> "drafts.update", id |-> DraftId])]]
  /\ UNCHANGED << accounts, gmailClients, built, oauth, args, args0, eval >>

\* drafts.update settles
DraftUpdateResponse(p) ==
  /\ pc[p] = "draftUpdate"
  /\ \E res \in Outcomes("drafts.update") :
       IF res = "ok"
       THEN /\ pc' = [pc EXCEPT ![p] = "done"]
            /\ call' = [call EXCEPT ![p].responses = Append(call[p].responses, res)]
       ELSE /\ pc' = [pc EXCEPT ![p] = "failed"]
            /\ call' = [call EXCEPT ![p] =
                 [call[p] EXCEPT !.error = "drafts.update",
                                 !.responses = Append(call[p].responses, res),
                                 !.thrown = res]]
  /\ UNCHANGED << accounts, gmailClients, built, oauth, args, args0, eval >>

\* One caller creates a draft and then updates it
DraftNext ==
  \E p \in SeqProcs :
    \/ DraftCreate(p)
    \/ ThreadGetResponse(p)
    \/ MessageGetResponse(p)
    \/ SubmitResponse(p)
    \/ UpdateDraft(p)
    \/ DraftGetResponse(p)
    \/ DraftUpdateResponse(p)
    \/ Return(p)

DraftSpec ==
  Init /\ [][DraftNext]_vars

\* The intents of the callers that compose at the same time
ConcArgsChoices(kind) ==
  IF kind = "createDraft"
  THEN { [to |-> << >>, subject |-> << >>, body |-> << "h", "i" >>,
          options |-> [cc |-> Undef, bcc |-> Undef, threadId |-> "tX",
                       replyToMessageId |-> "m1", attachments |-> Undef,
                       replyAll |-> TRUE, includeQuote |-> "undefined"]],
         [to |-> << Bob >>, subject |-> << "Y", "o" >>, body |-> << "h", "i" >>,
          options |-> [cc |-> Undef, bcc |-> Def(<< Dan >>), threadId |-> "tX",
                       replyToMessageId |-> "undefined", attachments |-> Undef,
                       replyAll |-> FALSE, includeQuote |-> "undefined"]] }
  ELSE { [to |-> << Carol >>, subject |-> << "Y", "o" >>, body |-> << "&" >>,
          options |-> [cc |-> Def(<< Carol >>), bcc |-> Undef, threadId |-> "undefined",
                       replyToMessageId |-> "m2",
                       attachments |-> Def(<< NotesPath >>),
                       replyAll |-> FALSE, includeQuote |-> "false"]] }

ConcCreateDraft(p) ==
  \E email \in EmailChoices, a \in ConcArgsChoices("createDraft") :
    Start(p, "createDraft", email, a)

ConcSendMessage(p) ==
  \E email \in EmailChoices, a \in ConcArgsChoices("sendMessage") :
    Start(p, "sendMessage", email, a)

\* Every caller may act: compose calls overlap, interleaved at their awaits
ConcNext ==
  \E p \in Procs :
    \/ ConcCreateDraft(p)
    \/ ConcSendMessage(p)
    \/ ThreadGetResponse(p)
    \/ MessageGetResponse(p)
    \/ SubmitResponse(p)
    \/ Return(p)

ConcSpec ==
  Init /\ [][ConcNext]_vars


(***************************************************************************)
(* GmailOAuthFlow: authorize, the callback server, the timeout             *)
(***************************************************************************)

\* Most requests the callback server handles in one authorize()
MaxCallbacks ==
  2

\* The other variables of the model, which the OAuth flow leaves alone
ServiceVars ==
  << accounts, gmailClients, built, pc, args, args0, call, eval >>

\* A cleanup that leaves the timer running
cleanup_KeepTimer(o) ==
  [o EXCEPT !.listener = IF o.server = "set" THEN "closed" ELSE o.listener,
            !.server = "null"]

\* cleanup: clearTimeout and forget the timer if there is one, close and
\* forget the server if there is one
cleanup(o) ==
  [o EXCEPT !.timer = IF o.timeoutId = "set" /\ o.timer = "armed" THEN "cleared" ELSE o.timer,
            !.timeoutId = "null",
            !.listener = IF o.server = "set" THEN "closed" ELSE o.listener,
            !.server = "null"]

\* resolve(result) of the promise of startAuthFlow: the first call settles
\* the promise, a later call has no effect
resolve(o, result) ==
  [o EXCEPT !.resolved = Append(o.resolved, result),
            !.promise = IF o.promise = "pending" THEN result ELSE o.promise]

\* authorize() up to its await: startAuthFlow creates the server, registers
\* the handlers and calls listen
Authorize ==
  /\ oauth.promise = "none"
  /\ oauth' = [oauth EXCEPT !.promise = "pending", !.server = "set",
                            !.listener = "starting"]
  /\ UNCHANGED ServiceVars

\* The callback of listen: the browser is opened and the timeout is armed
Listening ==
  /\ oauth.listener = "starting"
  /\ oauth' = [oauth EXCEPT !.listener = "listening", !.timeoutId = "set",
                            !.timer = "armed"]
  /\ UNCHANGED ServiceVars

\* The request handler and handleCallback up to its await.  A request comes
\* in while the server listens, or later on a connection opened before the
\* server was closed.
CallbackRequest ==
  /\ oauth.listener \in {"listening", "closed"}
  /\ oauth.timer # "none"
  /\ oauth.requests < MaxCallbacks
  /\ \E query \in {"other path", "error", "no code", "code"} :
       LET o == [oauth EXCEPT !.requests = oauth.requests + 1]
       IN  oauth' =
             CASE query = "other path" -> o
               [] query = "error" -> resolve(cleanup(o), "access_denied")
               [] query = "no code" -> resolve(cleanup(o), "No authorization code")
               [] query = "code" -> [o EXCEPT !.inflight = o.inflight + 1]
  /\ UNCHANGED ServiceVars

\* oauth2Client.getToken settles: the try block or the catch block of
\* handleCallback
TokenExchangeSettles ==
  /\ oauth.inflight > 0
  /\ \E result \in {"refreshToken", "invalid_grant"} :
       oauth' = resolve(cleanup([oauth EXCEPT !.inflight = oauth.inflight - 1]), result)
  /\ UNCHANGED ServiceVars

\* The callback of setTimeout, two minutes after the server started to
\* listen
Timeout ==
  /\ oauth.timer = "armed"
  /\ oauth' = resolve(cleanup([oauth EXCEPT !.timer = "fired"]), "Authorization timed out")
  /\ UNCHANGED ServiceVars

\* The handler of the server's "error" event: listen failed, or the
\* listening server reports an error
ServerError ==
  /\ oauth.listener \in {"starting", "listening"}
  /\ oauth' = resolve(cleanup(oauth), "server error")
  /\ UNCHANGED ServiceVars

\* authorize() after its await: it returns the refresh token or throws the
\* error of the result
AuthorizeReturns ==
  /\ oauth.promise \notin {"none", "pending"}
  /\ oauth.delivered = "none"
  /\ oauth' = [oauth EXCEPT !.delivered = oauth.promise]
  /\ UNCHANGED ServiceVars

OAuthNext ==
  \/ Authorize
  \/ Listening
  \/ CallbackRequest
  \/ TokenExchangeSettles
  \/ Timeout
  \/ ServerError
  \/ AuthorizeReturns

\* The event loop runs a callback that is ready, the timer fires when it is
\* due, and listen either succeeds or fails
OAuthSpec ==
  /\ Init
  /\ [][OAuthNext]_vars
  /\ WF_vars(Listening)
  /\ WF_vars(Timeout)
  /\ WF_vars(AuthorizeReturns)


(***************************************************************************)
(* The helpers on their own: one evaluation, its input drawn at the start  *)
(***************************************************************************)

\* Largest number of parts of an inner node of a content-part tree
MaxParts ==
  2

\* The sequences over S of length at most n
StringsUpTo(S, n) ==
  UNION { [1..k -> S] : k \in 0..n }

\* The service at rest, and one evaluation of fn about to start on an input
EvalInit(fn, inputs) ==
  /\ accounts = {Self}
  /\ gmailClients = {}
  /\ built = [e \in Emails |-> 0]
  /\ oauth = NoFlow
  /\ pc = [p \in Procs |-> "idle"]
  /\ args = [p \in Procs |-> NoArgs]
  /\ args0 = [p \in Procs |-> NoArgs]
  /\ call = [p \in Procs |-> NoCall]
  /\ eval \in { [fn |-> fn, input |-> x, results |-> << >>] : x \in inputs }

\* The n-th step of the evaluation of fn yields r
EvalStep(fn, n, r) ==
  /\ eval.fn = fn
  /\ Len(eval.results) = n - 1
  /\ eval' = [eval EXCEPT !.results = Append(eval.results, r)]
  /\ UNCHANGED << accounts, gmailClients, built, oauth, pc, args, args0, call >>

\* Leaves of a content-part tree, with or without body data
LeafShapes ==
  { [mimeType |-> m, data |-> d, parts |-> << >>] :
      m \in {"text/plain", "text/html"}, d \in {<< >>, << "?" >>} }

\* Trees of one level: a leaf, or a multipart/alternative of leaves
Level1 ==
  LeafShapes \cup { Node("multipart/alternative", q) : q \in StringsUpTo(LeafShapes, MaxParts) }

\* Trees of two levels: a multipart/mixed of two trees of one level
Level2 ==
  Level1 \cup { Node("multipart/mixed", << a, b >>) : a \in Level1, b \in Level1 }

\* The body data of each part that has some: "<", its path in the tree, "&"
RECURSIVE Relabel(_, _)
Relabel(t, path) ==
  [mimeType |-> t.mimeType,
   data |-> IF t.data = << >> THEN << >>
            ELSE Base64UrlEncode(<< "<" >> \o path \o << "&" >>),
   parts |-> [i \in 1..Len(t.parts) |-> Relabel(t.parts[i], path \o NumToStr(i))]]

\* The payloads messages.get returns
PayloadChoices ==
  { Relabel(t, << >>) : t \in Level2 }

BodyInit ==
  EvalInit("getMessageForReply", PayloadChoices)

\* getMessageForReply: body and htmlBody of the fetched payload
ExtractBodies ==
  EvalStep("getMessageForReply", 1,
           [body |-> decodeMessageBody(eval.input),
            htmlBody |-> decodeHtmlBody(eval.input)])

\* formatHtmlGmailQuote of the extracted bodies
QuoteHtml ==
  EvalStep("getMessageForReply", 2,
           formatHtmlGmailQuote(DateMorning, AlHeader,
                                eval.results[1].body, eval.results[1].htmlBody))

BodyNext ==
  \/ ExtractBodies
  \/ QuoteHtml

BodySpec ==
  BodyInit /\ [][BodyNext]_vars

\* Longest subject given to formatReplySubject
MaxSubjectLen ==
  4

\* The subjects: the letters of the prefix in both cases, a space, a letter
SubjectInputs ==
  StringsUpTo({"R", "r", "E", "e", ":", " ", "x"}, MaxSubjectLen)

SubjectInit ==
  EvalInit("formatReplySubject", SubjectInputs)

\* formatReplySubject of the subject of a message
PrefixSubject ==
  EvalStep("formatReplySubject", 1, formatReplySubject(eval.input))

\* formatReplySubject of the subject of the reply, when that is replied to
PrefixAgain ==
  EvalStep("formatReplySubject", 2, formatReplySubject(eval.results[1]))

SubjectNext ==
  \/ PrefixSubject
  \/ PrefixAgain

SubjectSpec ==
  SubjectInit /\ [][SubjectNext]_vars

\* Longest To / Cc header value given to parseEmailList
MaxHeaderLen ==
  5

\* The header values: an address letter, the separator, a space, the brackets
HeaderInputs ==
  StringsUpTo({"a", ",", " ", "<", ">"}, MaxHeaderLen)

AddressListInit ==
  EvalInit("parseEmailList", HeaderInputs)

\* parseEmailList of a To or Cc header value
ParseList ==
  EvalStep("parseEmailList", 1, parseEmailList(eval.input))

AddressListNext ==
  ParseList

AddressListSpec ==
  AddressListInit /\ [][AddressListNext]_vars

\* Longest recipient list given to filterSelfFromRecipients
MaxRecipients ==
  4

\* The recipient lists and own addresses: the account's address in three
\* casings and another address, in every order, repeated or not
RecipientInputs ==
  [recipients : StringsUpTo({Self, SelfUpper, << "M", "@", "x" >>, Bob}, MaxRecipients),
   selfEmail : {Self, SelfUpper}]

FilterInit ==
  EvalInit("filterSelfFromRecipients", RecipientInputs)

\* filterSelfFromRecipients of the merged To and Cc lists
FilterSelf ==
  EvalStep("filterSelfFromRecipients", 1,
           filterSelfFromRecipients(eval.input.recipients, eval.input.selfEmail))

FilterNext ==
  FilterSelf

FilterSpec ==
  FilterInit /\ [][FilterNext]_vars

\* The Date header values: every minute of one day, in the local zone
ClockInputs ==
  { DateAt(h, m) : h \in 0..23, m \in 0..59 }

ClockInit ==
  EvalInit("formatAttributionLine", ClockInputs)

\* formatAttributionLine of the Date and From headers of the original
Attribute ==
  EvalStep("formatAttributionLine", 1, formatAttributionLine(eval.input, AlHeader))

ClockSpec ==
  ClockInit /\ [][Attribute]_vars

\* Longest text given to escapeHtml
MaxTextLen ==
  4

\* The texts: the four characters escapeHtml replaces and the letters and
\* the semicolon of the entity "&lt;"
EscapeInputs ==
  StringsUpTo({"&", "<", ">", "\"", "l", "t", ";"}, MaxTextLen)

EscapeInit ==
  EvalInit("escapeHtml", EscapeInputs)

\* escapeHtml of a body or an address
EscapeText ==
  EvalStep("escapeHtml", 1, escapeHtml(eval.input))

EscapeSpec ==
  EscapeInit /\ [][EscapeText]_vars

\* Longest body given to formatQuotedBody
MaxBodyLen ==
  4

\* The bodies: a letter, the quote marker, a space and the line break
QuotedBodyInputs ==
  StringsUpTo({"a", ">", " ", "\n"}, MaxBodyLen)

QuotedBodyInit ==
  EvalInit("formatQuotedBody", QuotedBodyInputs)

\* formatQuotedBody of the body of the original message
QuoteBody ==
  EvalStep("formatQuotedBody", 1, formatQuotedBody(eval.input))

QuotedBodySpec ==
  QuotedBodyInit /\ [][QuoteBody]_vars


(***************************************************************************)
(* Reading a raw message back: header block, body, MIME parts              *)
(***************************************************************************)

\* The compose call of p has handed a message to the transport
Submitted(p) ==
  /\ call[p].requests # << >>
  /\ call[p].requests[Len(call[p].requests)].op \in {"drafts.create", "messages.send"}

\* The raw message p handed to the transport
ContentOf(p) ==
  call[p].submitted.raw.content

\* Index of the blank line that ends the header block
HeaderEnd(ec) ==
  CHOOSE i \in 1..Len(ec) : ec[i] = << >> /\ \A j \in 1..(i - 1) : ec[j] # << >>

HeaderBlock(ec) ==
  SubSeq(ec, 1, HeaderEnd(ec) - 1)

BodyOf(ec) ==
  SubSeq(ec, HeaderEnd(ec) + 1, Len(ec))

\* The values of the header lines called name ("To: ", "Cc: ", ...) in block
HeaderValues(block, name) ==
  LET lines == SelectSeq(block, LAMBDA h : h # << >> /\ h[1] = name)
  IN  [i \in 1..Len(lines) |-> Tail(lines[i])]

\* The header block holds exactly one line called name, with this value
HasHeader(block, name, value) ==
  HeaderValues(block, name) = << value >>

NoHeader(block, name) ==
  HeaderValues(block, name) = << >>

\* The message p replies to, as the mailbox stores it
TargetOf(p) ==
  Messages[call[p].replyData.messageId]

\* The value of the stored header whose name is one of names, "" if none
StoredHeader(msg, names) ==
  LET hits == { i \in 1..Len(msg.headers) : msg.headers[i].name \in names }
  IN  IF hits = {} THEN << >>
      ELSE msg.headers[CHOOSE i \in hits : \A j \in hits : i <= j].value

MessageIdNames ==
  {"Message-ID", "Message-Id"}

(***************************************************************************)
(* C1                                                                      *)
(***************************************************************************)

\* C1: when the reply target was fetched as a thread holding one or more
\* messages, the message fetched next is the last message of the thread in
\* stored order (not the first, unless the thread has a single message), and
\* the reply context is built from that message's headers and body.
C1_ThreadResolvesToLastMessage ==
  \A p \in Procs :
    LET c == call[p]
        ms == Threads[c.messageOrThreadId]
    IN  (c.thread = "ok" /\ Len(ms) >= 1) =>
          /\ c.messageIdToFetch = ms[Len(ms)]
          /\ c.requests[2] = [op |-> "messages.get", id |-> ms[Len(ms)]]
          /\ (Len(ms) > 1 => c.messageIdToFetch # ms[1])
          /\ c.replyData.has =>
               /\ c.replyData.messageId = ms[Len(ms)]
               /\ c.replyData.from = StoredHeader(Messages[ms[Len(ms)]], {"From", "from"})
               /\ c.replyData.subject = StoredHeader(Messages[ms[Len(ms)]], {"Subject"})
               /\ c.replyData.body = decodeMessageBody(Messages[ms[Len(ms)]].payload)

\* A reply context built from the third message of the three-message thread
C1_Witness ==
  \E p \in Procs :
    /\ call[p].thread = "ok"
    /\ Len(Threads[call[p].messageOrThreadId]) = 3
    /\ call[p].replyData.has
    /\ call[p].replyData.messageId = "m3"
    /\ Submitted(p)

(***************************************************************************)
(* C2                                                                      *)
(***************************************************************************)

\* C2: when the thread fetch fails, the identifier itself is fetched as a
\* message id, and the failure of the thread fetch is not what the caller
\* gets: the call goes on to the message fetch.
C2_ThreadFailureFallsBackToMessageId ==
  \A p \in Procs :
    LET c == call[p]
    IN  c.thread = "failed" =>
          /\ c.messageIdToFetch = c.messageOrThreadId
          /\ Len(c.requests) >= 2
          /\ c.requests[2] = [op |-> "messages.get", id |-> c.messageOrThreadId]
          /\ c.error # "threads.get"
          /\ c.replyData.has => c.replyData.messageId = c.messageOrThreadId

\* The thread fetch failed and the identifier was resolved as a message
C2_Witness ==
  \E p \in Procs :
    /\ call[p].thread = "failed"
    /\ call[p].messageOrThreadId = "m2"
    /\ call[p].replyData.has
    /\ call[p].replyData.messageId = "m2"
    /\ pc[p] = "done"

(***************************************************************************)
(* C3                                                                      *)
(***************************************************************************)

\* C3: when the resolved reply target carries a Message-ID, the composed
\* In-Reply-To is that Message-ID and References is the target's References
\* followed by one space and the Message-ID (the Message-ID alone when the
\* target has no References); the Message-ID ends the chain.
C3_ThreadingHeaders ==
  \A p \in Procs :
    (Submitted(p) /\ call[p].replyData.has) =>
      LET block == HeaderBlock(ContentOf(p))
          mid == StoredHeader(TargetOf(p), MessageIdNames)
          refs == StoredHeader(TargetOf(p), {"References"})
      IN  mid # << >> =>
            /\ HasHeader(block, "In-Reply-To: ", mid)
            /\ HasHeader(block, "References: ",
                         IF refs = << >> THEN mid ELSE refs \o << " " >> \o mid)
            /\ LET r == HeaderValues(block, "References: ")[1]
               IN  SubSeq(r, Len(r) - Len(mid) + 1, Len(r)) = mid

\* A reply to a message that has both a Message-ID and a References chain
C3_Witness ==
  \E p \in Procs :
    /\ Submitted(p)
    /\ call[p].replyData.has
    /\ call[p].replyData.messageId = "m3"
    /\ HasHeader(HeaderBlock(ContentOf(p)), "References: ",
                 << "<id1>", " ", "<id2>", " ", "<id3>" >>)


(***************************************************************************)
(* C4                                                                      *)
(***************************************************************************)

\* C4: when the resolved reply target has no Message-ID header, whether or
\* not it has a References header, the composed header block holds neither
\* an In-Reply-To nor a References header.
C4_NoThreadingHeadersWithoutMessageId ==
  \A p \in Procs :
    (Submitted(p) /\ call[p].replyData.has
       /\ StoredHeader(TargetOf(p), MessageIdNames) = << >>) =>
      /\ NoHeader(HeaderBlock(ContentOf(p)), "In-Reply-To: ")
      /\ NoHeader(HeaderBlock(ContentOf(p)), "References: ")

(***************************************************************************)
(* MIME structure of a body                                                *)
(***************************************************************************)

\* The boundary a multipart Content-Type value declares
BoundaryParam(ct) ==
  SubSeq(ct, 3, Len(ct) - 1)

\* body opens with the delimiter line of b and ends with its closing line
WellFormedMultipart(body, b) ==
  /\ Len(body) >= 2
  /\ body[1] = << "--" >> \o b
  /\ body[Len(body)] = << "--" >> \o b \o << "--" >>

\* The parts of a well-formed multipart body, in order: the pieces between
\* successive delimiter lines of b
PartsOf(body, b) ==
  LET idx == { i \in 1..Len(body) : body[i] = << "--" >> \o b }
      nth(k) == CHOOSE i \in idx : Cardinality({ j \in idx : j < i }) = k - 1
      n == Cardinality(idx)
  IN  [k \in 1..n |->
         SubSeq(body, nth(k) + 1, (IF k < n THEN nth(k + 1) ELSE Len(body)) - 1)]

\* The media type a part declares, "none" if it declares none or several
PartType(part) ==
  LET cts == HeaderValues(HeaderBlock(part), "Content-Type: ")
  IN  IF Len(cts) = 1 THEN cts[1][1] ELSE "none"

\* A line that is a boundary delimiter or closing line
IsBoundaryLine(piece) ==
  piece # << >> /\ piece[1] = "--"

\* body is shaped as the Content-Type value ct says
StructureMatches(ct, body) ==
  CASE ct[1] = "text/plain" ->
         /\ Len(body) = 1
         /\ ~IsBoundaryLine(body[1])
    [] ct[1] = "multipart/alternative" ->
         /\ WellFormedMultipart(body, BoundaryParam(ct))
         /\ LET parts == PartsOf(body, BoundaryParam(ct))
            IN  /\ Len(parts) = 2
                /\ PartType(parts[1]) = "text/plain"
                /\ PartType(parts[2]) = "text/html"
    [] ct[1] = "multipart/mixed" ->
         /\ WellFormedMultipart(body, BoundaryParam(ct))
         /\ LET parts == PartsOf(body, BoundaryParam(ct))
            IN  /\ Len(parts) >= 2
                /\ PartType(parts[1]) \in {"text/plain", "multipart/alternative"}
    [] OTHER -> FALSE

\* The caller asked for at least one attachment
WantsAttachments(p) ==
  args0[p].options.attachments.def /\ Len(args0[p].options.attachments.v) >= 1

\* A quote is being included: a reply target was resolved and the caller did
\* not switch the quote off
QuoteIncluded(p) ==
  call[p].replyData.has /\ args0[p].options.includeQuote # "false"

(***************************************************************************)
(* C5                                                                      *)
(***************************************************************************)

\* C5: every composed message declares exactly one top-level Content-Type:
\* multipart/mixed with attachments, else multipart/alternative with a
\* quote, else text/plain; and the body is shaped as that type says.
C5_ContentTypeSelection ==
  \A p \in Procs :
    Submitted(p) =>
      LET cts == HeaderValues(HeaderBlock(ContentOf(p)), "Content-Type: ")
          expected == IF WantsAttachments(p) THEN "multipart/mixed"
                      ELSE IF QuoteIncluded(p) THEN "multipart/alternative"
                      ELSE "text/plain"
      IN  /\ Len(cts) = 1
          /\ cts[1][1] = expected
          /\ StructureMatches(cts[1], BodyOf(ContentOf(p)))

\* Attachments and a quote together: multipart/mixed wins
C5_Witness ==
  \E p \in Procs :
    /\ Submitted(p)
    /\ WantsAttachments(p)
    /\ QuoteIncluded(p)
    /\ HeaderValues(HeaderBlock(ContentOf(p)), "Content-Type: ")[1][1] = "multipart/mixed"

(***************************************************************************)
(* C6                                                                      *)
(***************************************************************************)

\* part is the attachment part of the file at filePath
IsAttachmentPartOf(part, filePath) ==
  LET h == HeaderBlock(part)
  IN  /\ HasHeader(h, "Content-Transfer-Encoding: ", << "base64" >>)
      /\ HasHeader(h, "Content-Disposition: ",
                   << "attachment", "; filename=\"", filePath[Len(filePath)], "\"" >>)
      /\ BodyOf(part) = << << "base64(" >> \o Files[filePath] \o << ")" >> >>

\* C6: with n >= 1 attachments the message is multipart/mixed; its first
\* part is a multipart/alternative of one text/plain and one text/html part
\* (in that order) when a quote is included and a single text/plain part
\* otherwise; the n attachment parts follow in the order given, each base64
\* encoded with content-disposition attachment and the file's name.
C6_MixedStructure ==
  \A p \in Procs :
    (Submitted(p) /\ WantsAttachments(p)) =>
      LET ct == HeaderValues(HeaderBlock(ContentOf(p)), "Content-Type: ")[1]
          body == BodyOf(ContentOf(p))
          parts == PartsOf(body, BoundaryParam(ct))
          files == args0[p].options.attachments.v
      IN  /\ ct[1] = "multipart/mixed"
          /\ WellFormedMultipart(body, BoundaryParam(ct))
          /\ Len(parts) = 1 + Len(files)
          /\ IF QuoteIncluded(p)
             THEN /\ PartType(parts[1]) = "multipart/alternative"
                  /\ StructureMatches(HeaderValues(HeaderBlock(parts[1]), "Content-Type: ")[1],
                                      BodyOf(parts[1]))
             ELSE /\ PartType(parts[1]) = "text/plain"
                  /\ Len(BodyOf(parts[1])) = 1
          /\ \A i \in 1..Len(files) : IsAttachmentPartOf(parts[i + 1], files[i])

\* A quoted reply with two attachments, the notes before the document
C6_Witness ==
  \E p \in Procs :
    /\ Submitted(p)
    /\ QuoteIncluded(p)
    /\ args0[p].options.attachments.v = << NotesPath, DocPath >>
    /\ Len(PartsOf(BodyOf(ContentOf(p)),
                   BoundaryParam(HeaderValues(HeaderBlock(ContentOf(p)), "Content-Type: ")[1]))) = 3


(***************************************************************************)
(* C7                                                                      *)
(***************************************************************************)

\* The original To and Cc addresses of the message p replies to, without
\* the sending account's own address in any casing
OthersOf(p) ==
  LET all == parseEmailList(StoredHeader(TargetOf(p), {"To"}))
               \o parseEmailList(StoredHeader(TargetOf(p), {"Cc"}))
  IN  SelectSeq(all, LAMBDA e : ToLowerCase(e) # ToLowerCase(call[p].email))

\* The outgoing Cc header lists exactly these addresses (no header if none)
CcHeaderIs(p, list) ==
  IF list = << >> THEN NoHeader(HeaderBlock(ContentOf(p)), "Cc: ")
  ELSE HasHeader(HeaderBlock(ContentOf(p)), "Cc: ", Join(list, << ", " >>))

\* C7 as stated: with a reply target and the reply-all flag, the original To
\* and Cc minus the own address are merged into the outgoing Cc, whether or
\* not the caller supplied recipients.
C7_ReplyAllRegardlessOfRecipients ==
  \A p \in Procs :
    (Submitted(p) /\ call[p].replyData.has /\ args0[p].options.replyAll) =>
      CcHeaderIs(p, args0[p].options.cc.v \o OthersOf(p))

\* C7 amended: with a reply target, the reply-all flag and no recipients
\* supplied by the caller, the original To and Cc minus the own address (in
\* any casing) are appended to the caller's cc in the outgoing Cc; when the
\* caller supplied recipients the outgoing Cc is the caller's cc alone.
C7_ReplyAllWhenNoRecipients ==
  \A p \in Procs :
    (Submitted(p) /\ call[p].replyData.has /\ args0[p].options.replyAll) =>
      IF NoRecipients(args0[p].to)
      THEN CcHeaderIs(p, args0[p].options.cc.v \o OthersOf(p))
      ELSE CcHeaderIs(p, args0[p].options.cc.v)

\* Reply-all to the message whose To and Cc name the account in both casings
C7_Witness ==
  \E p \in Procs :
    /\ Submitted(p)
    /\ call[p].replyData.messageId = "m2"
    /\ args0[p].options.replyAll
    /\ NoRecipients(args0[p].to)
    /\ args0[p].options.cc = Undef
    /\ HasHeader(HeaderBlock(ContentOf(p)), "Cc: ", Carol \o << ", " >> \o Dan)

(***************************************************************************)
(* C8                                                                      *)
(***************************************************************************)

\* C8: a compose call never changes what the caller passed: to, subject,
\* body and the options object hold the values they held at the call.
C8_IntentNotMutated ==
  \A p \in Procs :
    pc[p] # "idle" => args[p] = args0[p]

(***************************************************************************)
(* C9                                                                      *)
(***************************************************************************)

\* The sender address of each stored message
SenderOf(id) ==
  CASE id \in {"m1", "m3"} -> << "a", "@", "x" >>
    [] id = "m2" -> Bob
    [] id = "m4" -> Carol
    [] id = "m5" -> Dan

\* C9: with a reply target and no recipients from the caller (empty list or
\* a single empty string) the To header holds the original sender's address
\* and nothing else; recipients the caller supplied are used unchanged.
C9_AutoFillTo ==
  \A p \in Procs :
    (Submitted(p) /\ call[p].replyData.has) =>
      IF NoRecipients(args0[p].to)
      THEN HasHeader(HeaderBlock(ContentOf(p)), "To: ", SenderOf(call[p].replyData.messageId))
      ELSE HasHeader(HeaderBlock(ContentOf(p)), "To: ", Join(args0[p].to, << ", " >>))

\* A reply without recipients to a message from "Al <a@x>"
C9_Witness ==
  \E p \in Procs :
    /\ Submitted(p)
    /\ call[p].replyData.from = AlHeader
    /\ args0[p].to = << << >> >>
    /\ HasHeader(HeaderBlock(ContentOf(p)), "To: ", << "a", "@", "x" >>)

(***************************************************************************)
(* C10                                                                     *)
(***************************************************************************)

\* C10: with a reply target and no subject from the caller the Subject is
\* formatReplySubject of the original subject; a non-empty subject from the
\* caller is used verbatim.
C10_AutoFillSubject ==
  \A p \in Procs :
    (Submitted(p) /\ call[p].replyData.has) =>
      IF args0[p].subject = << >>
      THEN HasHeader(HeaderBlock(ContentOf(p)), "Subject: ",
                     formatReplySubject(StoredHeader(TargetOf(p), {"Subject"})))
      ELSE HasHeader(HeaderBlock(ContentOf(p)), "Subject: ", args0[p].subject)

\* A reply without subject to a message whose subject is "Hi"
C10_Witness ==
  \E p \in Procs :
    /\ Submitted(p)
    /\ call[p].replyData.messageId = "m1"
    /\ args0[p].subject = << >>
    /\ HasHeader(HeaderBlock(ContentOf(p)), "Subject: ", << "R", "e", ":", " ", "H", "i" >>)


(***************************************************************************)
(* C11                                                                     *)
(***************************************************************************)

\* The submit operations of the transport
SubmitOps ==
  {"drafts.create", "messages.send"}

\* The compose call of p has issued a request of one of these operations
Issued(p, ops) ==
  \E i \in 1..Len(call[p].requests) : call[p].requests[i].op \in ops

\* The parts of the submitted message that are attachments
AttachmentPartsIn(p) ==
  LET ec == ContentOf(p)
      ct == HeaderValues(HeaderBlock(ec), "Content-Type: ")[1]
  IN  IF ct[1] # "multipart/mixed" THEN << >>
      ELSE SelectSeq(PartsOf(BodyOf(ec), BoundaryParam(ct)),
                     LAMBDA part : ~NoHeader(HeaderBlock(part), "Content-Disposition: "))

\* C11: when reading an attachment file fails the compose call fails and no
\* submit is issued for it; a message that is submitted carries every
\* attachment the caller asked for, never some or none of them.
C11_ReadFailureSubmitsNothing ==
  \A p \in Procs :
    /\ call[p].error = "readFileSync" =>
         /\ pc[p] = "failed"
         /\ ~Issued(p, SubmitOps)
         /\ call[p].submitted = NoCall.submitted
    /\ Submitted(p) =>
         /\ call[p].error # "readFileSync"
         /\ Len(AttachmentPartsIn(p)) = Len(args0[p].options.attachments.v)

\* A compose with two attachments whose read failed
C11_Witness ==
  \E p \in Procs :
    /\ call[p].error = "readFileSync"
    /\ Len(args0[p].options.attachments.v) = 2
    /\ pc[p] = "failed"

(***************************************************************************)
(* C12                                                                     *)
(***************************************************************************)

\* C12 as stated: at the moment an attachment read fails, no thread fetch,
\* message fetch or submit has been issued for the compose call, also when
\* it has a reply target.
C12_ReadFailureBeforeAnyRequest ==
  \A p \in Procs :
    call[p].error = "readFileSync" => call[p].requests = << >>

\* C12 amended: at the moment an attachment read fails no submit has been
\* issued; a compose without reply target has issued no request at all, and
\* a compose with a reply target has issued exactly the thread fetch and the
\* message fetch of the reply resolution, both settled.
C12_ReadFailureBeforeSubmit ==
  \A p \in Procs :
    call[p].error = "readFileSync" =>
      /\ ~Issued(p, SubmitOps)
      /\ IF HasReplyTarget(args0[p])
         THEN /\ Len(call[p].requests) = 2
              /\ call[p].requests[1] =
                   [op |-> "threads.get", id |-> args0[p].options.replyToMessageId]
              /\ call[p].requests[2].op = "messages.get"
              /\ Len(call[p].responses) = 2
              /\ call[p].responses[2] = "ok"
         ELSE call[p].requests = << >>

\* A read failure of a reply: both fetches are behind it
C12_Witness ==
  \E p \in Procs :
    /\ call[p].error = "readFileSync"
    /\ HasReplyTarget(args0[p])
    /\ call[p].replyData.has
    /\ Len(call[p].requests) = 2

(***************************************************************************)
(* C13                                                                     *)
(***************************************************************************)

\* C13: when the message fetch is rejected the compose call fails with the
\* value the transport rejected it with, nothing is submitted, and no fetch
\* is issued again: one thread fetch and one message fetch are all it made.
C13_MessageFetchFailurePropagates ==
  \A p \in Procs :
    LET c == call[p]
    IN  (Len(c.responses) >= 2 /\ c.responses[2] # "ok") =>
          /\ pc[p] = "failed"
          /\ c.thrown = c.responses[2]
          /\ c.thrown \in TransportErrors("messages.get")
          /\ Len(c.requests) = 2
          /\ c.requests[1].op = "threads.get"
          /\ c.requests[2].op = "messages.get"
          /\ Len(c.responses) = 2
          /\ ~Issued(p, SubmitOps)
          /\ c.submitted = NoCall.submitted

\* An identifier that names neither a thread nor a message
C13_Witness ==
  \E p \in Procs :
    /\ call[p].messageOrThreadId = "zz"
    /\ call[p].thread = "failed"
    /\ Len(call[p].responses) = 2
    /\ call[p].thrown = "notFound"
    /\ pc[p] = "failed"

(***************************************************************************)
(* C14                                                                     *)
(***************************************************************************)

\* The reply context the call of p gets when no other call is in flight: the
\* context of the message its thread fetch and its identifier resolve to
ReplyDataAlone(p) ==
  LET id == args0[p].options.replyToMessageId
  IN  IF HasReplyTarget(args0[p])
      THEN ReplyDataOf(Messages[IF call[p].thread = "ok" /\ Len(Threads[id]) > 0
                                THEN Threads[id][Len(Threads[id])] ELSE id])
      ELSE NoReplyData

\* What the call of p hands to the transport when it runs alone, with the
\* intent it was called with and the boundaries it generated
SubmissionAlone(p) ==
  [raw |-> EncodeRaw(EmailContent(call[p].email, args0[p], ReplyDataAlone(p),
                                  call[p].boundary, call[p].altBoundary)),
   threadId |-> IF HasReplyTarget(args0[p]) THEN ReplyDataAlone(p).threadId
                ELSE IF call[p].kind = "createDraft" THEN args0[p].options.threadId
                ELSE "undefined"]

RECURSIVE AllParts(_)
AllParts(t) ==
  {t} \cup UNION { AllParts(t.parts[i]) : i \in 1..Len(t.parts) }

\* A part declared of this type that has content
IsTyped(part, type) ==
  part.mimeType = type /\ part.data # << >>

\* The content of a part
ContentOfPart(part) ==
  SubSeq(part.data, 2, Len(part.data) - 1)

\* The search the specification describes: the part itself when it is of
\* the type, else the first direct child of the type, else the first result
\* of the search in a child, in order; empty when nothing is found
RECURSIVE TypedSearch(_, _)
TypedSearch(t, type) ==
  IF IsTyped(t, type) THEN ContentOfPart(t)
  ELSE LET direct == { i \in 1..Len(t.parts) : IsTyped(t.parts[i], type) }
           nested == { i \in 1..Len(t.parts) : TypedSearch(t.parts[i], type) # << >> }
       IN  IF direct # {}
           THEN ContentOfPart(t.parts[CHOOSE i \in direct : \A j \in direct : i <= j])
           ELSE IF nested # {}
           THEN TypedSearch(t.parts[CHOOSE i \in nested : \A j \in nested : i <= j], type)
           ELSE << >>

\* The bodies have been extracted from the payload
Extracted ==
  eval.fn = "getMessageForReply" /\ Len(eval.results) >= 1

\* C15: the plain body extracted for quoting is the content of a text/plain
\* part, found level first and then depth first; content of a part of
\* another type is never the plain body, and the plain body is empty when
\* the tree has no text/plain part with content.
C15_PlainBodyIsTextPlain ==
  Extracted =>
    LET body == eval.results[1].body
    IN  /\ body = TypedSearch(eval.input, "text/plain")
        /\ body # << >> =>
             \E part \in AllParts(eval.input) :
               IsTyped(part, "text/plain") /\ ContentOfPart(part) = body
        /\ (\A part \in AllParts(eval.input) : ~IsTyped(part, "text/plain")) =>
             body = << >>

(***************************************************************************)
(* C16                                                                     *)
(***************************************************************************)

\* What the blockquote of an HTML quote encloses
QuotedContent(quote) ==
  LET open == CHOOSE i \in 1..Len(quote) :
                quote[i] = "<blockquote class=\"gmail_quote\" style=\"margin:0px 0px 0px 0.8ex;border-left:1px solid rgb(204,204,204);padding-left:1ex\">"
  IN  SubSeq(quote, open + 1, Len(quote) - 1)

\* The text with & < > " written as entities, one character at a time
RECURSIVE Escaped(_)
Escaped(text) ==
  IF text = << >> THEN << >>
  ELSE (CASE Head(text) = "&" -> << "&", "a", "m", "p", ";" >>
          [] Head(text) = "<" -> << "&", "l", "t", ";" >>
          [] Head(text) = ">" -> << "&", "g", "t", ";" >>
          [] Head(text) = "\"" -> << "&", "q", "u", "o", "t", ";" >>
          [] OTHER -> << Head(text) >>) \o Escaped(Tail(text))

\* C16: the HTML body is the content of a text/html part found level first
\* and then depth first; it is empty exactly when the tree has no text/html
\* part with content, and then the HTML quote encloses the escaped plain
\* body (otherwise it encloses the HTML body).
C16_HtmlBodyExtraction ==
  Extracted =>
    LET htmlBody == eval.results[1].htmlBody
        body == eval.results[1].body
    IN  /\ htmlBody = TypedSearch(eval.input, "text/html")
        /\ htmlBody # << >> =>
             \E part \in AllParts(eval.input) :
               IsTyped(part, "text/html") /\ ContentOfPart(part) = htmlBody
        /\ htmlBody = << >> <=>
             \A part \in AllParts(eval.input) : ~IsTyped(part, "text/html")
        /\ Len(eval.results) = 2 =>
             QuotedContent(eval.results[2]) =
               IF htmlBody = << >> THEN Escaped(body) ELSE htmlBody

\* No HTML anywhere: the quote encloses the escaped text of the plain part
C16_Witness ==
  /\ Extracted
  /\ Len(eval.results) = 2
  /\ Len(eval.input.parts) = 2
  /\ eval.input.parts[2] = [mimeType |-> "text/html", data |-> << >>, parts |-> << >>]
  /\ eval.results[1].htmlBody = << >>
  /\ eval.results[1].body = << "<", "1", "1", "&" >>
  /\ QuotedContent(eval.results[2]) =
       << "&", "l", "t", ";", "1", "1", "&", "a", "m", "p", ";" >>

(***************************************************************************)
(* C17                                                                     *)
(***************************************************************************)

\* C17: prefixing the subject that formatReplySubject returned changes
\* nothing, for every subject, the empty and the blank ones included.
C17_ReplySubjectIdempotent ==
  (eval.fn = "formatReplySubject" /\ Len(eval.results) = 2) =>
    eval.results[2] = eval.results[1]

(***************************************************************************)
(* C18                                                                     *)
(***************************************************************************)

\* s without the white space at its two ends
Stripped(s) ==
  LET inner == { i \in 1..Len(s) : s[i] \notin {" ", "\t", "\n", "\r"} }
  IN  IF inner = {} THEN << >>
      ELSE SubSeq(s, CHOOSE i \in inner : \A j \in inner : i <= j,
                     CHOOSE i \in inner : \A j \in inner : i >= j)

\* s, once stripped, starts with "re:" in some casing
StartsWithRe(s) ==
  LET t == Stripped(s)
  IN  Len(t) >= 3 /\ t[1] \in {"r", "R"} /\ t[2] \in {"e", "E"} /\ t[3] = ":"

\* formatReplySubject has returned for a subject that carries the prefix
PrefixedCase ==
  eval.fn = "formatReplySubject" /\ Len(eval.results) >= 1 /\ StartsWithRe(eval.input)

SegmentsOf(h) ==
  LET commas == { i \in 1..Len(h) : h[i] = "," }
      stops == commas \cup {0, Len(h) + 1}
      nth(k) == CHOOSE i \in stops : Cardinality({ j \in stops : j < i }) = k
  IN  [k \in 1..(Cardinality(commas) + 1) |-> SubSeq(h, nth(k - 1) + 1, nth(k) - 1)]

\* A segment that is not empty: it holds something other than white space
NonEmptySegment(seg) ==
  Stripped(seg) # << >>

\* A segment of the form  name <   > : a name, and angle brackets that
\* enclose white space only.  The brackets are those the pattern of
\* parseEmailAddress finds: the first "<" after the name from which no ">"
\* occurs before the final one.
NameWithoutAddress(seg) ==
  LET t == Stripped(seg)
      opens == { j \in 2..(Len(t) - 2) :
                   /\ t[j] = "<"
                   /\ \A i \in (j + 1)..(Len(t) - 1) : t[i] # ">"
                   /\ \E k \in 1..(j - 1) :
                        /\ \A i \in 1..k : t[i] \notin {"\n", "\r"}
                        /\ \A i \in (k + 1)..(j - 1) : t[i] \in {" ", "\t", "\n", "\r"} }
  IN  /\ Len(t) >= 4
      /\ t[Len(t)] = ">"
      /\ opens # {}
      /\ LET j == CHOOSE x \in opens : \A y \in opens : x <= y
         IN  \A i \in (j + 1)..(Len(t) - 1) : t[i] \in {" ", "\t", "\n", "\r"}

\* parseEmailList has returned
ListParsed ==
  eval.fn = "parseEmailList" /\ Len(eval.results) = 1

\* C19 as stated: the list parseEmailList returns has as many entries as the
\* header has comma-separated non-empty segments; an empty or blank header
\* gives the empty list.
C19_LengthIsNonEmptySegments ==
  ListParsed =>
    Len(eval.results[1]) =
      Cardinality({ k \in 1..Len(SegmentsOf(eval.input)) :
                      NonEmptySegment(SegmentsOf(eval.input)[k]) })

\* C19 amended: the list has as many entries as the header has
\* comma-separated segments that hold an address: the segments that are not
\* blank and are not a name followed by angle brackets around white space
\* only; an empty or blank header gives the empty list.
C19_LengthIsSegmentsWithAddress ==
  ListParsed =>
    /\ Len(eval.results[1]) =
         Cardinality({ k \in 1..Len(SegmentsOf(eval.input)) :
                         /\ NonEmptySegment(SegmentsOf(eval.input)[k])
                         /\ ~NameWithoutAddress(SegmentsOf(eval.input)[k]) })
    /\ Stripped(eval.input) = << >> => eval.results[1] = << >>

\* Three segments, the middle one blank: two addresses
C19_Witness ==
  /\ ListParsed
  /\ eval.input = << "a", ",", " ", ",", "a" >>
  /\ eval.results[1] = << << "a" >>, << "a" >> >>

(***************************************************************************)
(* C20                                                                     *)
(***************************************************************************)

\* The two letters are the same letter, whatever their case
SameLetter(x, y) ==
  \/ x = y
  \/ {x, y} \in {{"m", "M"}, {"x", "X"}, {"b", "B"}}

\* The two addresses are equal when case is ignored
SameAddress(a, b) ==
  Len(a) = Len(b) /\ \A i \in 1..Len(a) : SameLetter(a[i], b[i])

\* C20: the result is the recipient list without the entries that equal
\* selfEmail when case is ignored, every one of them, and with all the
\* other entries in their order, repeated ones included.
C20_FilterRemovesSelfOnly ==
  (eval.fn = "filterSelfFromRecipients" /\ Len(eval.results) = 1) =>
    LET recipients == eval.input.recipients
        result == eval.results[1]
        kept == { i \in 1..Len(recipients) : ~SameAddress(recipients[i], eval.input.selfEmail) }
        nth(k) == CHOOSE i \in kept : Cardinality({ j \in kept : j < i }) = k - 1
    IN  /\ Len(result) = Cardinality(kept)
        /\ \A k \in 1..Len(result) : result[k] = recipients[nth(k)]
        /\ \A k \in 1..Len(result) : ~SameAddress(result[k], eval.input.selfEmail)

\* The own address twice, in two casings, around another address given twice
C20_Witness ==
  /\ eval.fn = "filterSelfFromRecipients"
  /\ eval.input = [recipients |-> << Self, Bob, SelfUpper, Bob >>, selfEmail |-> Self]
  /\ eval.results = << << Bob, Bob >> >>

(***************************************************************************)
(* C21                                                                     *)
(***************************************************************************)

\* The lines of a text, in order: the pieces between its line breaks (a
\* text that ends with a line break has an empty last line)
LinesOf(text) ==
  LET breaks == { i \in 1..Len(text) : text[i] = "\n" }
      stops == breaks \cup {0, Len(text) + 1}
      nth(k) == CHOOSE i \in stops : Cardinality({ j \in stops : j < i }) = k
  IN  [k \in 1..(Cardinality(breaks) + 1) |-> SubSeq(text, nth(k - 1) + 1, nth(k) - 1)]

\* formatQuotedBody has returned
BodyQuoted ==
  eval.fn = "formatQuotedBody" /\ Len(eval.results) = 1

\* C21: for a non-empty body formatQuotedBody returns as many lines as the
\* body has, in the same order, each with "> " in front of it (so a body
\* that ends with a line break gets a last line "> "); for the empty body it
\* returns the empty string.
C21_EveryLineQuoted ==
  BodyQuoted =>
    IF eval.input = << >> THEN eval.results[1] = << >>
    ELSE LET before == LinesOf(eval.input)
             after == LinesOf(eval.results[1])
         IN  /\ Len(after) = Len(before)
             /\ \A k \in 1..Len(before) : after[k] = << ">", " " >> \o before[k]
             /\ eval.input[Len(eval.input)] = "\n" => after[Len(after)] = << ">", " " >>

\* "a", an empty line and the empty last line after the final line break
C21_Witness ==
  /\ BodyQuoted
  /\ eval.input = << "a", "\n", "\n" >>
  /\ eval.results[1] = << ">", " ", "a", "\n", ">", " ", "\n", ">", " " >>

(***************************************************************************)
(* C22                                                                     *)
(***************************************************************************)

\* The decimal digit for n in 0..9
DigitOf(n) ==
  << "0", "1", "2", "3", "4", "5", "6", "7", "8", "9" >>[n + 1]

\* The clock text of an attribution line: what stands between " at " and
\* the sender, the meridiem marker included
ClockTextOf(line) ==
  LET at == CHOOSE i \in 1..Len(line) : line[i] = " at "
      mer == CHOOSE i \in 1..Len(line) : line[i] \in {"AM", "PM"}
  IN  SubSeq(line, at + 1, mer)

\* The text a 12-hour clock shows at h:m of the 24-hour clock: the hour in
\* 1..12 without leading zero, ":", the minutes in two digits, U+202F and
\* the meridiem marker
TwelveHourText(h, m) ==
  LET shown == IF h \in {0, 12} THEN 12 ELSE IF h > 12 THEN h - 12 ELSE h
  IN  (IF shown >= 10 THEN << "1", DigitOf(shown - 10) >> ELSE << DigitOf(shown) >>)
        \o << ":", DigitOf(m \div 10), DigitOf(m % 10), "U+202F" >>
        \o << IF h >= 12 THEN "PM" ELSE "AM" >>

\* formatAttributionLine has returned
Attributed ==
  eval.fn = "formatAttributionLine" /\ Len(eval.results) = 1

Entities ==
  { << "&", "a", "m", "p", ";" >>, << "&", "l", "t", ";" >>,
    << "&", "g", "t", ";" >>, << "&", "q", "u", "o", "t", ";" >> }

\* An entity starts at position i of text
EntityAt(text, i) ==
  \E e \in Entities :
    i + Len(e) - 1 <= Len(text) /\ SubSeq(text, i, i + Len(e) - 1) = e

\* escapeHtml has returned
TextEscaped ==
  eval.fn = "escapeHtml" /\ Len(eval.results) = 1

\* C23: escapeHtml writes each & < > " of the text as its entity and keeps
\* every other character, one input character at a time (an entity it has
\* written is not escaped again); the output holds no < > " and every & in
\* it starts an entity.
C23_EscapesFourCharactersOnce ==
  TextEscaped =>
    LET out == eval.results[1]
    IN  /\ out = Escaped(eval.input)
        /\ \A i \in 1..Len(out) : out[i] \notin {"<", ">", "\""}
        /\ \A i \in 1..Len(out) : out[i] = "&" => EntityAt(out, i)
        /\ Cardinality({ i \in 1..Len(out) : out[i] = "&" }) =
             Cardinality({ i \in 1..Len(eval.input) :
                             eval.input[i] \in {"&", "<", ">", "\""} })

\* The text "&lt;" becomes "&amp;lt;", and "<" next to it "&lt;"
C23_Witness ==
  /\ TextEscaped
  /\ eval.input = << "<", "&", "l", "t" >>
  /\ eval.results[1] = << "&", "l", "t", ";", "&", "a", "m", "p", ";", "l", "t" >>

(***************************************************************************)
(* C24                                                                     *)
(***************************************************************************)

\* The operations of the requests the call of p has issued, in order
OpsOf(p) ==
  [i \in 1..Len(call[p].requests) |-> call[p].requests[i].op]

\* The transport calls of a complete compose, in order
PipelineOf(p) ==
  IF HasReplyTarget(args0[p])
  THEN << "threads.get", "messages.get", SubmitOp(call[p].kind) >>
  ELSE << SubmitOp(call[p].kind) >>

\* s is an initial piece of t
IsPrefix(s, t) ==
  Len(s) <= Len(t) /\ SubSeq(t, 1, Len(s)) = s

\* What holds of the requests of every compose call at every moment
CallOrder ==
  \A p \in Procs :
    pc[p] # "idle" =>
      /\ IsPrefix(OpsOf(p), PipelineOf(p))
      /\ Len(call[p].responses) <= Len(call[p].requests)
      /\ Len(call[p].requests) - Len(call[p].responses) <= 1
      /\ (pc[p] \in {"submit", "done"} \/ call[p].error \in SubmitOps) =>
           OpsOf(p) = PipelineOf(p)

CachedClientsHaveAccounts ==
  gmailClients \subseteq accounts

\* C25: a client is constructed for an address only when none is cached for
\* it, and a cached client leaves the cache only together with its account,
\* so at most one client is constructed while an account exists; every
\* cached client belongs to a stored account; an operation started for an
\* address without account, a deleted one included, fails with "Account not
\* found", issues no request and constructs and caches nothing.
C25_OneClientPerAccount ==
  /\ []CachedClientsHaveAccounts
  /\ [][\A e \in Emails :
          /\ built'[e] # built[e] =>
               /\ built'[e] = built[e] + 1
               /\ e \notin gmailClients /\ e \in accounts /\ e \in gmailClients'
          /\ (e \in gmailClients /\ e \notin gmailClients') => e \notin accounts'
          /\ (e \in gmailClients /\ e \in gmailClients') => built'[e] = built[e]]_vars
  /\ [][\A p \in Procs :
          (/\ pc[p] = "idle" /\ pc'[p] # "idle"
           /\ call'[p].kind \in {"createDraft", "sendMessage"}
           /\ call'[p].email \notin accounts) =>
            /\ pc'[p] = "failed"
            /\ call'[p].thrown = "Account not found"
            /\ call'[p].requests = << >>
            /\ gmailClients' = gmailClients
            /\ built' = built]_vars

\* The account was used, then deleted, and the next operation for it failed
C25_Witness ==
  \E p \in Procs :
    /\ call[p].kind = "sendMessage"
    /\ call[p].email = Self
    /\ call[p].thrown = "Account not found"
    /\ built[Self] = 1
    /\ Self \notin gmailClients
    /\ Self \notin accounts

(***************************************************************************)
(* C26                                                                     *)
(***************************************************************************)

\* The parts of the multipart/alternative of the message p submitted: the
\* message itself, or the first part of a multipart/mixed
AlternativesOf(p) ==
  LET ec == ContentOf(p)
      ct == HeaderValues(HeaderBlock(ec), "Content-Type: ")[1]
  IN  IF ct[1] = "multipart/mixed"
      THEN LET first == PartsOf(BodyOf(ec), BoundaryParam(ct))[1]
               inner == HeaderValues(HeaderBlock(first), "Content-Type: ")[1]
           IN  PartsOf(BodyOf(first), BoundaryParam(inner))
      ELSE PartsOf(BodyOf(ec), BoundaryParam(ct))

\* How many times the chunk occurs in the text
Occurrences(text, chunk) ==
  Cardinality({ i \in 1..Len(text) : text[i] = chunk })

\* The plain quote fragment of the message p replies to: blank line,
\* attribution line, blank line, the original body with "> " before each line
PlainQuoteOf(p) ==
  formatGmailQuote(StoredHeader(TargetOf(p), {"Date"}),
                   StoredHeader(TargetOf(p), {"From", "from"}),
                   call[p].replyData.body)

\* The caller's reply text as HTML: escaped, line breaks as <br>
ReplyAsHtml(p) ==
  ReplaceAll(Escaped(args0[p].body), "\n", << "<", "b", "r", ">" >>)

\* C26: when a quote is included, the text/plain alternative is the caller's
\* reply text followed by the plain quote fragment, and the text/html
\* alternative is the caller's reply text as given (as HTML), not the text
\* the quote was appended to, followed by the quote container; the quoted
\* original occurs once in each alternative.
C26_QuoteOncePerAlternative ==
  \A p \in Procs :
    (Submitted(p) /\ QuoteIncluded(p)) =>
      LET alts == AlternativesOf(p)
          plain == BodyOf(alts[1])[1]
          html == BodyOf(alts[2])[1]
          reply == ReplyAsHtml(p)
      IN  /\ Len(alts) = 2
          /\ PartType(alts[1]) = "text/plain"
          /\ PartType(alts[2]) = "text/html"
          /\ plain = args0[p].body \o PlainQuoteOf(p)
          /\ SubSeq(html, 1, Len(reply) + 3) =
               << "<div dir=\"ltr\"><div>" >> \o reply
                 \o << "</div><br>", "<div class=\"gmail_quote gmail_quote_container\">" >>
          /\ html[Len(html)] = "</div>"
          /\ html[Len(html) - 1] = "</blockquote></div>"
          /\ Occurrences(plain, " wrote:") = 1
          /\ Occurrences(html, " wrote:") = 1
          /\ Occurrences(html, "<div class=\"gmail_quote gmail_quote_container\">") = 1
          /\ Occurrences(html, "On ") = 1

\* A quoted reply to the message with a plain and an HTML body
C26_Witness ==
  \E p \in Procs :
    /\ Submitted(p)
    /\ QuoteIncluded(p)
    /\ call[p].replyData.messageId = "m3"
    /\ ~WantsAttachments(p)
    /\ SubSeq(BodyOf(AlternativesOf(p)[1])[1], 1, 4) = << "<", "o", "k", ">" >>
    /\ SubSeq(BodyOf(AlternativesOf(p)[2])[1], 2, 5) = << "&", "l", "t", ";" >>
    /\ Occurrences(BodyOf(AlternativesOf(p)[2])[1], " wrote:") = 1

(***************************************************************************)
(* C27                                                                     *)
(***************************************************************************)

\* A raw message with the generated part of every boundary token blanked
WithoutTokens(ec) ==
  [k \in 1..Len(ec) |->
     [i \in 1..Len(ec[k]) |->
        IF i > 1 /\ ec[k][i - 1] \in {"boundary_", "alt_"} THEN "#" ELSE ec[k][i]]]

\* p created a draft and q sent a message from the same account, with the
\* same recipients, subject, body and options and the same reply context
SameCompose(p, q) ==
  /\ Submitted(p) /\ call[p].kind = "createDraft"
  /\ Submitted(q) /\ call[q].kind = "sendMessage"
  /\ call[p].email = call[q].email
  /\ args0[p] = args0[q]
  /\ args0[p].options.threadId = "undefined"
  /\ call[p].replyData = call[q].replyData

C28_DraftThreadId ==
  \A p \in Procs :
    (Submitted(p) /\ call[p].kind = "createDraft") =>
      IF HasReplyTarget(args0[p])
      THEN /\ call[p].replyData.has
           /\ call[p].submitted.threadId = TargetOf(p).threadId
      ELSE call[p].submitted.threadId = args0[p].options.threadId

\* The caller names thread tX and replies to a message of thread t4
C28_Witness ==
  \E p \in Procs :
    /\ Submitted(p)
    /\ call[p].kind = "createDraft"
    /\ args0[p].options.threadId = "tX"
    /\ args0[p].options.replyToMessageId = "t4"
    /\ call[p].submitted.threadId = "t4"

(***************************************************************************)
(* C29                                                                     *)
(***************************************************************************)

\* The promise of startAuthFlow is settled
Settled ==
  oauth.promise \notin {"none", "pending"}

\* The callback server is closed and the timeout cannot fire any more
FlowCleanedUp ==
  /\ oauth.server = "null"
  /\ oauth.listener = "closed"
  /\ oauth.timeoutId = "null"
  /\ oauth.timer # "armed"

\* What holds of the outcome at every moment
OutcomeIsFirst ==
  /\ Settled <=> oauth.resolved # << >>
  /\ Settled => (oauth.promise = oauth.resolved[1] /\ FlowCleanedUp)
  /\ oauth.delivered # "none" =>
       (Settled /\ oauth.delivered = oauth.resolved[1] /\ FlowCleanedUp)

\* C29: under every interleaving of callback requests, token exchanges that
\* succeed or fail, the timeout and a server error, the outcome of
\* authorize is that of the first event that ends the flow and no later
\* event changes it; when the outcome is settled, and when it is delivered,
\* the callback server is closed and the timeout is cleared; and authorize,
\* once called, delivers an outcome.
C29_OneOutcomeAfterCleanup ==
  /\ []OutcomeIsFirst
  /\ [][/\ Settled => oauth'.promise = oauth.promise
        /\ oauth.delivered # "none" => oauth'.delivered = oauth.delivered]_vars
  /\ (oauth.promise = "pending") ~> (oauth.delivered # "none")

\* The timeout ended the flow while a token exchange was under way; the
\* exchange succeeded afterwards and the outcome stayed the timeout
C29_Witness ==
  /\ oauth.delivered = "Authorization timed out"
  /\ oauth.resolved = << "Authorization timed out", "refreshToken" >>
  /\ oauth.inflight = 0

(***************************************************************************)
(* C30                                                                     *)
(***************************************************************************)

\* Where the blank line that ends the header block of a raw message text
\* starts (CRLF CRLF, or a bare LF LF), 0-based; the length of the text
\* when it has no blank line
BlankLineOf(text) ==
  LET crlf == IndexOf(text, << "\r", "\n", "\r", "\n" >>)
      lf == IndexOf(text, << "\n", "\n" >>)
  IN  IF crlf = -1 /\ lf = -1 THEN [at |-> Len(text), len |-> 0]
      ELSE IF lf = -1 \/ (crlf # -1 /\ crlf < lf) THEN [at |-> crlf, len |-> 4]
      ELSE [at |-> lf, len |-> 2]

HeaderBlockOfText(text) ==
  SubSeq(text, 1, BlankLineOf(text).at)

BodyOfText(text) ==
  SubSeq(text, BlankLineOf(text).at + BlankLineOf(text).len + 1, Len(text))

\* C30: when updateDraft is applied to a draft whose raw content createDraft
\* produced, the message it hands to drafts.update has the header block of
\* the original draft, the new body as its whole body, and the thread of
\* the original draft.
C30_UpdateKeepsHeaderBlock ==
  \A p \in SeqProcs :
    (pc[p] = "draftUpdate" /\ call[p].draft.hasRaw) =>
      LET original == TextOf(call[p].submitted.raw.content)
          updated == call[p].updated.raw.content
      IN  /\ HeaderBlockOfText(updated) = HeaderBlockOfText(original)
          /\ BodyOfText(updated) = args[p].body
          /\ call[p].updated.threadId = StoredThreadId(call[p].submitted)

=============================================================================
